---- MODULE Spec2Model ----
(***************************************************************************)
(* Change classification and routing of the encrypted store.               *)
(*                                                                         *)
(* The repository holds two generations of EncryptedStore:                 *)
(*   - the Fireproof store (src/src/encryptedStore.ts): known-id set,      *)
(*     batched subscribe callback, docsAdded/docsChanged/docsDeleted;      *)
(*   - the PouchDB store (src/unnamed/part_000): one change per feed       *)
(*     event, processingChain, onChange/onDelete/onError.                  *)
(* SpecFP is the state machine of the first, SpecPouch of the second.      *)
(* Strings that the code parses (storage keys) are sequences of            *)
(* one-character strings, so that parseFullId is computed, not assumed.    *)
(***************************************************************************)
EXTENDS Integers, Sequences, FiniteSets, TLC

VARIABLES
    scope,       \* storage keys the environment writes to in this run
    budget,      \* number of writes the environment may commit in this run
    db,          \* underlying store: storage key -> ciphertext field d, or NoD
    wrote,       \* number of writes the environment has committed
    loadPc,      \* position of loadAll: "idle", "scanned", "done"
    snap,      \* rows loadAll read in readAllEncrypted, in query order
    knownIds,    \* EncryptedStore.knownIds
    fullIdMap,   \* EncryptedStore.fullIdMap: stripped id -> full id, or NoKey
    isSubscribed,\* EncryptedStore.isSubscribed
    feed,        \* changes committed after subscribe, not yet handed to the callback
    fpTasks,     \* handleChange invocations suspended at `await decrypt`
    calls,       \* listener invocations, in order
    fpObs,       \* history: what the engine classified, in classification order
    arrived,     \* history: the deliveries of the change feed, in order
    changesHandler,  \* PouchDB store: the live changes subscription is set up
    processingChain, \* PouchDB store: state of the promise the next link chains on
    chainQ,      \* PouchDB store: changes whose chain link has not run yet
    pRun,        \* PouchDB store: the change whose handleChange awaits decryptDoc
    pHandled,    \* history: changes whose chain link has settled, in order
    pConsole,    \* number of errors the chain's catch handler has logged
    helperClass,    \* EncryptionHelper in use: "sha256" (getKey hashes) or "pbkdf2" (derive/raw)
    passphraseMode, \* EncryptionHelper.passphraseMode: "derive" or "raw" ("none": no such field)
    keyPromise,     \* EncryptionHelper.keyPromise: 0 for null, else an index into promises
    promises,       \* the key promises getKey has created
    callers,        \* store operations that have called getKey, in call order
    derivations,    \* history: number of key derivations started
    retried,        \* history: a derivation was started after one had failed
    encPass,     \* passphrase of the helper that encrypts
    decPass,     \* passphrase of the helper that decrypts
    data,        \* the string the next encrypt call is given (UTF-16 code units)
    orig,        \* history: the string the first encrypt call was given
    wire,        \* the encrypted string in hand (empty before the first encrypt)
    sent,        \* history: the string whose encryption wire was produced from
    corrupted,   \* history: how wire was altered after encrypt, "no" if it was not
    out,         \* outcome of the last decrypt call, or Null
    cycles,      \* number of encrypt calls so far
    revTree,     \* PouchDB: the revisions of the document a_x, leaves marked
    conflictOp,  \* the getConflictInfo / resolveConflict call in progress
    settled,     \* history: outcome of the call that settled in the last step
    syncs,       \* PouchDB: the replications db.sync has created, in order
    syncHandler, \* EncryptedStore.syncHandler: 0 for null, else an index into syncs
    remoteUrl,   \* EncryptedStore.remoteUrl, or Null
    configured,  \* history: connectRemote was called and no disconnect since
    local,       \* local database: revision number and deleted flag per document
    unpushed,    \* local changes feed beyond the push checkpoint, in sequence order
    remote,      \* history: the revisions written to the remote database
    puts,        \* number of application writes so far
    das,         \* the deleteAllAndSync call in progress or last settled
    dal,         \* the deleteAllLocal call in progress or last returned
    syncNowLog,  \* history: outcome of the last syncNow call
    conns,       \* Fireproof: the connections the connector has returned, in order
    connection,  \* Fireproof EncryptedStore.connection: 0 for null, else an index
    disconnects, \* number of disconnectRemote calls made by the application
    codec,       \* identity codec: the input in hand, its key and the decoded identity
    pdocs,       \* PouchDB database of the put/get/delete model: storage key -> document
    latest,      \* history: <<table, id>> -> fields of the last put, or Deleted
    lastOp,      \* the put / get / delete call that returned in the last step
    written,     \* history: the records the store has handed to db.put
    tablesUsed,  \* history: the table names put, get and delete were called with
    ops,         \* number of put / get / delete calls so far
    subscr,      \* the change feeds the store has opened and what they delivered
    putCalls     \* PouchDB: the put calls made on document a_x, each with its position

fpVars == <<knownIds, fullIdMap, isSubscribed, feed, fpTasks, fpObs>>
pouchVars == <<changesHandler, processingChain, chainQ, pRun, pHandled, pConsole>>
helperVars == <<helperClass, passphraseMode, keyPromise, promises, callers,
                derivations, retried>>
cipherVars == <<encPass, decPass, data, orig, wire, sent, corrupted, out, cycles>>
conflictVars == <<revTree, conflictOp, settled>>
syncVars == <<syncs, syncHandler, remoteUrl, configured, local, unpushed, remote,
              puts, das, dal, syncNowLog>>
remoteVars == <<conns, connection, disconnects>>
docVars == <<pdocs, latest, lastOp, written, tablesUsed, ops>>
extVars == <<helperVars, cipherVars, conflictVars, syncVars, remoteVars, codec, docVars,
             subscr, putCalls>>
vars == <<scope, budget, db, wrote, loadPc, snap, calls, arrived, fpVars, pouchVars,
          extVars>>

----------------------------------------------------------------------------
(* Bounds and input domains *)

MaxWrites == 3
MaxEvents == 4

Sep == "_"
KeyAX == <<"a", "_", "x">>
KeyBX == <<"b", "_", "x">>
KeyAY == <<"a", "_", "y">>
KeyN  == <<"n">>
Keys == {KeyAX, KeyBX, KeyAY, KeyN}

NoD == [kind |-> "none"]
NoKey == <<>>
Null == [null |-> TRUE]

\* The passphrase this store was constructed with, and a foreign one.
Passphrase == "A"
Good == [kind |-> "enc", key |-> "A", pt |-> 1]
Bad  == [kind |-> "enc", key |-> "B", pt |-> 1]
Ciphertexts == {Good, Bad}

\* Strings given to encrypt: UTF-16 code units "A", "e-acute", U+FEFF and the
\* two halves of U+1F30D, in sequences of at most MaxPayload units.
MaxPayload == 2
MaxCycles == 2
Units == {65, 233, 65279, 55356, 57101}
Payloads == UNION {[1..n -> Units] : n \in 0..MaxPayload}
Passphrases == {"A", "B"}

\* Values crypto.getRandomValues(new Uint8Array(12)) may fill the IV with.
IVs == {[i \in 1..12 |-> i], [i \in 1..12 |-> 255 - 16 * i]}

\* No encrypt or decrypt call has been made on a wire string yet.
CipherIdle ==
    /\ encPass = Passphrase /\ decPass = Passphrase
    /\ data = <<>> /\ orig = <<>> /\ sent = <<>>
    /\ wire = <<>> /\ out = Null
    /\ corrupted = "no" /\ cycles = 0

\* Revisions of one document: replication brings at most MaxRevs revisions,
\* of the generations RepGens; local writes stop at generation MaxGen.
MaxRevs == 4
MaxGen == 3
RepGens == {1, 2}
Hashes == {1, 3}
LocalHash == 2
RevData == {[kind |-> "enc", key |-> "A", pt |-> 1],
            [kind |-> "enc", key |-> "A", pt |-> 2],
            [kind |-> "enc", key |-> "B", pt |-> 1]}
Chosen == {3}

\* The document does not exist and no conflict call has been made.
ConflictIdle ==
    /\ revTree = {}
    /\ conflictOp = [name |-> "idle"]
    /\ settled = [name |-> "none"]

\* Remote sync: documents of the local database, at most MaxPuts application
\* writes and MaxSyncs replications per run.
MaxPuts == 2
MaxSyncs == 2
AllDocsOrder == << <<"_design/", "v">>, <<"a_", "x">> >>
SyncDocs == {AllDocsOrder[k] : k \in 1..Len(AllDocsOrder)}

\* The store as constructed, on an empty database.
SyncIdle ==
    /\ syncs = <<>> /\ syncHandler = 0 /\ remoteUrl = Null
    /\ configured = FALSE
    /\ local = [id \in SyncDocs |-> [ver |-> 0, deleted |-> FALSE]]
    /\ unpushed = <<>> /\ remote = {} /\ puts = 0
    /\ das = [pc |-> "idle"] /\ dal = [pc |-> "idle"]
    /\ syncNowLog = [outcome |-> "none"]

\* Fireproof remote connection: at most MaxConnects connectRemote calls.
MaxConnects == 4

RemoteIdle == conns = <<>> /\ connection = 0 /\ disconnects = 0

\* Strings of at most n characters of S.
SeqsUpTo(S, n) == UNION {[1..k -> S] : k \in 0..n}

\* Identity codec inputs: tables and ids of at most MaxLen characters, the
\* underscore among them, and raw keys.
MaxLen == 2
CodecTables == SeqsUpTo({"a", "_"}, MaxLen)
CodecIds == SeqsUpTo({"x", "_"}, MaxLen)
CodecRawKeys == SeqsUpTo({"a", "_"}, MaxLen + 1)
CodecInputs ==
    {[pc |-> "pair", from |-> "pair", table |-> t, id |-> i, key |-> <<>>, out |-> 0] :
        t \in CodecTables, i \in CodecIds}
    \cup {[pc |-> "raw", from |-> "raw", table |-> <<>>, id |-> <<>>, key |-> k, out |-> 0] :
        k \in CodecRawKeys}

CodecIdle == codec = [pc |-> "idle"]

\* Subscriptions: at most MaxSubCalls loadAll / reconnect calls and
\* MaxSubChanges committed changes, on a store of either generation.
MaxSubCalls == 3
MaxSubChanges == 3
SubsOf(gen) ==
    [gen |-> gen, subs |-> <<>>, changesHandler |-> 0, isSubscribed |-> FALSE,
     calls |-> 0, handled |-> <<>>]
SubsIdle == subscr = SubsOf("none")

\* Overlapping put calls on one document: at most MaxPutCalls, with at most
\* MaxPutReps replicated revisions.
MaxPutCalls == 2
MaxPutReps == 2

\* put / get / delete: at most MaxOps calls.
MaxOps == 3

\* The put / get / delete model before the first call, on an empty database.
DocIdle ==
    /\ pdocs = <<>> /\ latest = <<>> /\ lastOp = [op |-> "none"]
    /\ written = {} /\ tablesUsed = {} /\ ops = 0

\* The EncryptionHelper as constructed: no key requested yet.
MaxCallers == 3

HelperIdle ==
    /\ keyPromise = 0
    /\ promises = <<>>
    /\ callers = <<>>
    /\ derivations = 0
    /\ retried = FALSE

----------------------------------------------------------------------------
(* Pure helpers *)

RECURSIVE Flatten(_)
Flatten(seqs) ==
    IF seqs = <<>> THEN <<>> ELSE seqs[1] \o Flatten(Tail(seqs))

RECURSIVE IndexOfFrom(_, _, _)
IndexOfFrom(s, c, i) ==
    IF i > Len(s) THEN 0
    ELSE IF s[i] = c THEN i ELSE IndexOfFrom(s, c, i + 1)

\* The storage key `${table}_${id}`.
fullIdOf(table, id) == table \o <<Sep>> \o id

RECURSIVE LastIndexOf(_, _, _)
LastIndexOf(s, c, i) ==
    IF i = 0 THEN 0
    ELSE IF s[i] = c THEN i ELSE LastIndexOf(s, c, i - 1)

\* parseFullId splitting at the last underscore instead of the first.
parseFullId_LastUnderscore(fullId) ==
    LET lastUnderscore == LastIndexOf(fullId, Sep, Len(fullId))
    IN  IF lastUnderscore = 0 THEN Null
        ELSE [type |-> SubSeq(fullId, 1, lastUnderscore - 1),
              id   |-> SubSeq(fullId, lastUnderscore + 1, Len(fullId))]

parseFullId(fullId) ==
    LET firstUnderscore == IndexOfFrom(fullId, Sep, 1)
    IN  IF firstUnderscore = 0 THEN Null
        ELSE [type |-> SubSeq(fullId, 1, firstUnderscore - 1),
              id   |-> SubSeq(fullId, firstUnderscore + 1, Len(fullId))]

\* EncryptionHelper.decrypt followed by JSON.parse: the payload, or Null when
\* either throws (AES-GCM authentication under another key, unparsable data).
decrypt(d) ==
    IF d.kind = "enc" /\ d.key = Passphrase THEN [pt |-> d.pt] ELSE Null

decryptFromEncryptedData(d, id) ==
    LET r == decrypt(d)
    IN  IF r = Null THEN Null ELSE [_id |-> id, pt |-> r.pt]

\* readAllEncrypted's loop over the rows: encryptedMap and fullIdMap are keyed
\* by the stripped id, a later row with the same stripped id overwrites the
\* value and keeps the Map position of the first.
RECURSIVE SnapIds(_)
SnapIds(rows) ==
    IF rows = <<>> THEN <<>>
    ELSE LET rest == SnapIds(SubSeq(rows, 1, Len(rows) - 1))
             p == parseFullId(rows[Len(rows)]._id)
         IN  IF p = Null \/ \E k \in 1..Len(rest) : rest[k] = p.id
             THEN rest ELSE Append(rest, p.id)

LastRowFor(rows, id) ==
    LET hits == {k \in 1..Len(rows) :
                    /\ parseFullId(rows[k]._id) # Null
                    /\ parseFullId(rows[k]._id).id = id}
    IN  rows[CHOOSE k \in hits : \A j \in hits : j <= k]

AllIds == {parseFullId(k).id : k \in {q \in Keys : parseFullId(q) # Null}}

readAllEncrypted(rows) ==
    [order        |-> SnapIds(rows),
     encryptedMap |-> [id \in AllIds |->
                         IF \E k \in 1..Len(SnapIds(rows)) : SnapIds(rows)[k] = id
                         THEN LastRowFor(rows, id).d ELSE NoD],
     fullIdMap    |-> [id \in AllIds |->
                         IF \E k \in 1..Len(SnapIds(rows)) : SnapIds(rows)[k] = id
                         THEN LastRowFor(rows, id)._id ELSE NoKey]]

\* groupByTable / groupDeletedByTable: a Map from table to docs in insertion
\* order; a doc whose id has no fullIdMap entry is left out.
RECURSIVE groupByTable(_, _)
groupByTable(docs, fmap) ==
    IF docs = <<>> THEN <<>>
    ELSE LET rest == groupByTable(SubSeq(docs, 1, Len(docs) - 1), fmap)
             doc == docs[Len(docs)]
             fullId == fmap[doc._id]
         IN  IF fullId = NoKey THEN rest
             ELSE LET type == parseFullId(fullId).type
                  IN  IF \E g \in 1..Len(rest) : rest[g].table = type
                      THEN [g \in 1..Len(rest) |->
                              IF rest[g].table = type
                              THEN [rest[g] EXCEPT !.docs = Append(@, doc)]
                              ELSE rest[g]]
                      ELSE Append(rest, [table |-> type, docs |-> <<doc>>])

groupDeletedByTable(deletedDocs, fmap) == groupByTable(deletedDocs, fmap)

\* Rows of db.query("_id", {descending: false}): the stored documents in key order.
RECURSIVE KeyLess(_, _)
KeyLess(a, b) ==
    IF a = <<>> THEN b # <<>>
    ELSE IF b = <<>> THEN FALSE
    ELSE IF a[1] # b[1]
         THEN LET ord == [c \in {"_", "a", "b", "n", "x", "y"} |->
                            CASE c = "_" -> 1 [] c = "a" -> 2 [] c = "b" -> 3
                              [] c = "n" -> 4 [] c = "x" -> 5 [] c = "y" -> 6]
              IN ord[a[1]] < ord[b[1]]
         ELSE KeyLess(Tail(a), Tail(b))

RECURSIVE SortedKeys(_)
SortedKeys(S) ==
    IF S = {} THEN <<>>
    ELSE LET m == CHOOSE k \in S : \A j \in S \ {k} : KeyLess(k, j)
         IN  <<m>> \o SortedKeys(S \ {m})

QueryRows(store) ==
    LET present == {k \in Keys : store[k] # NoD}
        order == SortedKeys(present)
    IN  [i \in 1..Len(order) |-> [_id |-> order[i], d |-> store[order[i]]]]

----------------------------------------------------------------------------
(* Fireproof store: src/src/encryptedStore.ts *)

\* The environment (this store's put/delete, another client, remote sync)
\* commits one record or tombstone; once subscribed, the store's change feed
\* holds it for the subscribe callback.
DbWrite(k, d) ==
    /\ wrote < budget
    /\ k \in scope
    /\ wrote' = wrote + 1
    /\ db' = [db EXCEPT ![k] = d]
    /\ feed' = IF isSubscribed THEN Append(feed, [_id |-> k, d |-> d]) ELSE feed
    /\ UNCHANGED <<scope, budget, loadPc, snap, knownIds, fullIdMap,
                   isSubscribed, fpTasks, calls, fpObs, arrived, pouchVars, extVars>>

\* History entries for the rows readAllEncrypted put into its maps.
RECURSIVE SeedObs(_)
SeedObs(rows) ==
    IF rows = <<>> THEN <<>>
    ELSE LET p == parseFullId(rows[1]._id)
         IN  (IF p = Null THEN <<>>
              ELSE <<[key |-> rows[1]._id, id |-> p.id, d |-> rows[1].d,
                      ev |-> "scan", class |-> "seed"]>>)
             \o SeedObs(Tail(rows))

\* loadAll up to the end of readAllEncrypted: the query result is taken and
\* fullIdMap / knownIds are replaced.
LoadAllScan ==
    /\ loadPc = "idle"
    /\ LET rows == QueryRows(db)
           r == readAllEncrypted(rows)
       IN  /\ snap' = rows
           /\ fullIdMap' = r.fullIdMap
           /\ knownIds' = {r.order[k] : k \in 1..Len(r.order)}
           /\ fpObs' = fpObs \o SeedObs(rows)
    /\ loadPc' = "scanned"
    /\ UNCHANGED <<scope, budget, db, wrote, isSubscribed, feed, fpTasks,
                   calls, arrived, pouchVars, extVars>>

\* The documents loadAll's loop pushes: one per encryptedMap entry that decrypts.
RECURSIVE LoadDocs(_, _)
LoadDocs(order, encryptedMap) ==
    IF order = <<>> THEN <<>>
    ELSE LET doc == decryptFromEncryptedData(encryptedMap[order[1]], order[1])
         IN  (IF doc = Null THEN <<>> ELSE <<doc>>)
             \o LoadDocs(Tail(order), encryptedMap)

\* loadAll from the decrypt loop to its end: initial docsAdded, then subscribe.
LoadAllFinish ==
    /\ loadPc = "scanned"
    /\ LET r == readAllEncrypted(snap)
           docs == LoadDocs(r.order, r.encryptedMap)
       IN  calls' = IF Len(docs) > 0
                      THEN Append(calls, [src |-> "loadAll", type |-> "docsAdded",
                                            events |-> groupByTable(docs, r.fullIdMap)])
                      ELSE calls
    /\ isSubscribed' = TRUE
    /\ loadPc' = "done"
    /\ UNCHANGED <<scope, budget, db, wrote, snap, knownIds, fullIdMap, feed,
                   fpTasks, fpObs, arrived, pouchVars, extVars>>

\* One handleChange invocation between two suspensions.  st carries the
\* store fields it reads and writes and the invocation's locals.
NewTask(changes, known, fmap, obs) ==
    [changes |-> changes, i |-> 1, newDocs |-> <<>>, changedDocs |-> <<>>,
     deletedDocs |-> <<>>, known |-> known, fmap |-> fmap, obs |-> obs]

\* Runs the loop from change i until a change has to await decryption
\* (i <= Len(changes) on return) or the loop ends.
\* Variant of HandleTombstone that reports the deletion but keeps the id known.
HandleTombstone_KeepsKnown(st, change, id) ==
    IF id \in st.known
    THEN [st EXCEPT
            !.deletedDocs = Append(@, [_id |-> id]),
            !.obs = Append(@, [key |-> change._id, id |-> id, d |-> change.d,
                               ev |-> "live", class |-> "deletion"]),
            !.i = @ + 1]
    ELSE [st EXCEPT
            !.obs = Append(@, [key |-> change._id, id |-> id, d |-> change.d,
                               ev |-> "live", class |-> "ignored"]),
            !.i = @ + 1]

\* The deletion branch for one change: known id -> deletedDocs, forget it.
HandleTombstone(st, change, id) ==
    IF id \in st.known
    THEN [st EXCEPT
            !.deletedDocs = Append(@, [_id |-> id]),
            !.known = @ \ {id},
            !.obs = Append(@, [key |-> change._id, id |-> id, d |-> change.d,
                               ev |-> "live", class |-> "deletion"]),
            !.i = @ + 1]
    ELSE [st EXCEPT
            !.obs = Append(@, [key |-> change._id, id |-> id, d |-> change.d,
                               ev |-> "live", class |-> "ignored"]),
            !.i = @ + 1]

RECURSIVE HandleSync(_)
HandleSync(st) ==
    IF st.i > Len(st.changes) THEN st
    ELSE LET change == st.changes[st.i]
             p == parseFullId(change._id)
         IN  IF change.d # NoD
             THEN IF p = Null
                  THEN HandleSync([st EXCEPT !.i = @ + 1])
                  ELSE st
             ELSE IF p = Null
                  THEN HandleSync([st EXCEPT !.i = @ + 1])
                  ELSE HandleSync(HandleTombstone(st, change, p.id))

\* Variant of HandleAfterDecrypt that reports a new document without
\* recording its id in knownIds.
HandleAfterDecrypt_NoAdd(st) ==
    LET change == st.changes[st.i]
        id == parseFullId(change._id).id
        decrypted == decryptFromEncryptedData(change.d, id)
    IN  IF decrypted = Null
        THEN [st EXCEPT
                !.obs = Append(@, [key |-> change._id, id |-> id, d |-> change.d,
                                   ev |-> "live", class |-> "undecryptable"]),
                !.i = @ + 1]
        ELSE IF id \in st.known
        THEN [st EXCEPT
                !.changedDocs = Append(@, decrypted),
                !.obs = Append(@, [key |-> change._id, id |-> id, d |-> change.d,
                                   ev |-> "live", class |-> "update"]),
                !.i = @ + 1]
        ELSE [st EXCEPT
                !.newDocs = Append(@, decrypted),
                !.fmap = [@ EXCEPT ![id] = change._id],
                !.obs = Append(@, [key |-> change._id, id |-> id, d |-> change.d,
                                   ev |-> "live", class |-> "creation"]),
                !.i = @ + 1]

\* Variant of HandleAfterDecrypt that makes the id known when its record
\* fails to decrypt.
HandleAfterDecrypt_FailureAdds(st) ==
    LET change == st.changes[st.i]
        id == parseFullId(change._id).id
        decrypted == decryptFromEncryptedData(change.d, id)
    IN  IF decrypted = Null
        THEN [st EXCEPT
                !.known = @ \cup {id},
                !.obs = Append(@, [key |-> change._id, id |-> id, d |-> change.d,
                                   ev |-> "live", class |-> "undecryptable"]),
                !.i = @ + 1]
        ELSE IF id \in st.known
        THEN [st EXCEPT
                !.changedDocs = Append(@, decrypted),
                !.obs = Append(@, [key |-> change._id, id |-> id, d |-> change.d,
                                   ev |-> "live", class |-> "update"]),
                !.i = @ + 1]
        ELSE [st EXCEPT
                !.newDocs = Append(@, decrypted),
                !.known = @ \cup {id},
                !.fmap = [@ EXCEPT ![id] = change._id],
                !.obs = Append(@, [key |-> change._id, id |-> id, d |-> change.d,
                                   ev |-> "live", class |-> "creation"]),
                !.i = @ + 1]

\* Continuation after `await this.decryptFromEncryptedData(change.d, id)`.
HandleAfterDecrypt(st) ==
    LET change == st.changes[st.i]
        id == parseFullId(change._id).id
        decrypted == decryptFromEncryptedData(change.d, id)
    IN  IF decrypted = Null
        THEN [st EXCEPT
                !.obs = Append(@, [key |-> change._id, id |-> id, d |-> change.d,
                                   ev |-> "live", class |-> "undecryptable"]),
                !.i = @ + 1]
        ELSE IF id \in st.known
        THEN [st EXCEPT
                !.changedDocs = Append(@, decrypted),
                !.obs = Append(@, [key |-> change._id, id |-> id, d |-> change.d,
                                   ev |-> "live", class |-> "update"]),
                !.i = @ + 1]
        ELSE [st EXCEPT
                !.newDocs = Append(@, decrypted),
                !.known = @ \cup {id},
                !.fmap = [@ EXCEPT ![id] = change._id],
                !.obs = Append(@, [key |-> change._id, id |-> id, d |-> change.d,
                                   ev |-> "live", class |-> "creation"]),
                !.i = @ + 1]

\* The listener calls at the end of handleChange, in the code's order.
FireEvents(st, log) ==
    LET c1 == IF Len(st.newDocs) > 0
              THEN Append(log, [src |-> "handleChange", type |-> "docsAdded",
                                  events |-> groupByTable(st.newDocs, st.fmap)])
              ELSE log
        c2 == IF Len(st.changedDocs) > 0
              THEN Append(c1, [src |-> "handleChange", type |-> "docsChanged",
                               events |-> groupByTable(st.changedDocs, st.fmap)])
              ELSE c1
    IN  IF Len(st.deletedDocs) > 0
        THEN Append(c2, [src |-> "handleChange", type |-> "docsDeleted",
                         events |-> groupDeletedByTable(st.deletedDocs, st.fmap)])
        ELSE c2

\* fullIdMap after the clean-up loop that follows docsDeleted.
CleanFullIdMap(st) ==
    [id \in AllIds |->
        IF \E k \in 1..Len(st.deletedDocs) : st.deletedDocs[k]._id = id
        THEN NoKey ELSE st.fmap[id]]

\* Commits what one run of handleChange did: either it is suspended again
\* (kept in fpTasks at position pos) or it fires its events and ends.
Commit(st, before, after) ==
    /\ knownIds' = st.known
    /\ fpObs' = st.obs
    /\ IF st.i <= Len(st.changes)
       THEN /\ fpTasks' = before \o <<[changes |-> st.changes, i |-> st.i,
                                       newDocs |-> st.newDocs,
                                       changedDocs |-> st.changedDocs,
                                       deletedDocs |-> st.deletedDocs]>> \o after
            /\ fullIdMap' = st.fmap
            /\ calls' = calls
       ELSE /\ fpTasks' = before \o after
            /\ fullIdMap' = CleanFullIdMap(st)
            /\ calls' = FireEvents(st, calls)

\* The subscribe callback is invoked with the next n committed changes:
\* handleChange starts and runs until its first await.
Deliver(n) ==
    /\ isSubscribed
    /\ n \in 1..Len(feed)
    /\ LET changes == SubSeq(feed, 1, n)
           st == HandleSync(NewTask(changes, knownIds, fullIdMap, fpObs))
       IN  /\ Commit(st, fpTasks, <<>>)
           /\ arrived' = Append(arrived, changes)
    /\ feed' = SubSeq(feed, n + 1, Len(feed))
    /\ UNCHANGED <<scope, budget, db, wrote, loadPc, snap, isSubscribed, pouchVars,
                   extVars>>

\* The decryption a suspended handleChange awaits settles; the invocation
\* continues until its next await or its end.
Resume(t) ==
    /\ t \in 1..Len(fpTasks)
    /\ LET task == fpTasks[t]
           st0 == [NewTask(task.changes, knownIds, fullIdMap, fpObs) EXCEPT
                     !.i = task.i, !.newDocs = task.newDocs,
                     !.changedDocs = task.changedDocs,
                     !.deletedDocs = task.deletedDocs]
           st == HandleSync(HandleAfterDecrypt(st0))
       IN  Commit(st, SubSeq(fpTasks, 1, t - 1), SubSeq(fpTasks, t + 1, Len(fpTasks)))
    /\ UNCHANGED <<scope, budget, db, wrote, loadPc, snap, isSubscribed, feed,
                   arrived, pouchVars, extVars>>

InitCommon ==
    /\ db = [k \in Keys |-> NoD]
    /\ wrote = 0
    /\ loadPc = "idle"
    /\ snap = <<>>
    /\ knownIds = {}
    /\ fullIdMap = [id \in AllIds |-> NoKey]
    /\ isSubscribed = FALSE
    /\ feed = <<>>
    /\ fpTasks = <<>>
    /\ calls = <<>>
    /\ fpObs = <<>>
    /\ arrived = <<>>
    /\ changesHandler = FALSE
    /\ processingChain = "fulfilled"
    /\ chainQ = <<>>
    /\ pRun = Null
    /\ pHandled = <<>>
    /\ pConsole = 0
    /\ HelperIdle
    /\ ConflictIdle
    /\ SyncIdle
    /\ RemoteIdle
    /\ DocIdle
    /\ putCalls = <<>>

StoreHelper == helperClass = "pbkdf2" /\ passphraseMode = "derive" /\ CipherIdle

InitFP == InitCommon /\ CodecIdle /\ SubsIdle /\ StoreHelper /\ scope = Keys /\ budget = MaxWrites

\* A single identity, with room for the four-event sequence.
InitFP1 == InitCommon /\ CodecIdle /\ SubsIdle /\ StoreHelper /\ scope = {KeyAX} /\ budget = MaxEvents

NextFP ==
    \/ \E k \in Keys, d \in Ciphertexts \cup {NoD} : DbWrite(k, d)
    \/ LoadAllScan
    \/ LoadAllFinish
    \/ \E n \in 1..Len(feed) : Deliver(n)
    \/ \E t \in 1..Len(fpTasks) : Resume(t)

SpecFP == InitFP /\ [][NextFP]_vars

SpecFP1 == InitFP1 /\ [][NextFP]_vars

----------------------------------------------------------------------------
(* PouchDB store: src/unnamed/part_000 *)

\* Variant of decryptDoc that returns a document whatever key the data was
\* encrypted under.
decryptDoc_AnyKey(encryptedDoc) ==
    LET parsed == parseFullId(encryptedDoc._id)
    IN  IF parsed = Null THEN Null
        ELSE [_id |-> parsed.id, _table |-> parsed.type, pt |-> encryptedDoc.d.pt]

\* EncryptedStore.decryptDoc of the PouchDB store: the document with its
\* table, or Null when parseFullId fails or decrypt / JSON.parse throws.
decryptDoc(encryptedDoc) ==
    LET parsed == parseFullId(encryptedDoc._id)
    IN  IF parsed = Null THEN Null
        ELSE IF decrypt(encryptedDoc.d) = Null THEN Null
        ELSE [_id |-> parsed.id, _table |-> parsed.type,
              pt |-> decrypt(encryptedDoc.d).pt]

\* A committed record or tombstone; the live changes feed emits a "change"
\* event for it, whose handler appends a link to processingChain.
PouchWrite(k, d) ==
    /\ wrote < budget
    /\ k \in scope
    /\ wrote' = wrote + 1
    /\ db' = [db EXCEPT ![k] = d]
    /\ IF changesHandler
       THEN /\ chainQ' = Append(chainQ, [_id |-> k, d |-> d])
            /\ arrived' = Append(arrived, <<[_id |-> k, d |-> d]>>)
       ELSE UNCHANGED <<chainQ, arrived>>
    /\ UNCHANGED <<scope, budget, loadPc, snap, calls, fpVars, extVars, changesHandler,
                   processingChain, pRun, pHandled, pConsole>>

\* loadAll up to the result of db.allDocs.
PouchLoadAllScan ==
    /\ loadPc = "idle"
    /\ snap' = QueryRows(db)
    /\ loadPc' = "scanned"
    /\ UNCHANGED <<scope, budget, db, wrote, calls, arrived, fpVars, pouchVars, extVars>>

RECURSIVE LoadedDocs(_)
LoadedDocs(rows) ==
    IF rows = <<>> THEN <<>>
    ELSE (IF rows[1].d # NoD /\ decryptDoc(rows[1]) # Null
          THEN <<decryptDoc(rows[1])>> ELSE <<>>) \o LoadedDocs(Tail(rows))

RECURSIVE LoadErrors(_)
LoadErrors(rows) ==
    IF rows = <<>> THEN <<>>
    ELSE (IF rows[1].d # NoD /\ decryptDoc(rows[1]) = Null
          THEN <<[docId |-> rows[1]._id, cause |-> "decrypt"]>> ELSE <<>>)
         \o LoadErrors(Tail(rows))

\* The listener calls at the end of loadAll's try block; a listener that
\* throws ends the block (the catch logs "loadAll failed").
LoadAllCalls(rows, throwsOnChange, throwsOnError) ==
    LET docs == LoadedDocs(rows)
        errors == LoadErrors(rows)
        c1 == IF Len(docs) > 0
              THEN <<[src |-> "loadAll", type |-> "onChange", events |-> docs,
                      threw |-> throwsOnChange]>>
              ELSE <<>>
    IN  IF Len(docs) > 0 /\ throwsOnChange THEN c1
        ELSE IF Len(errors) > 0
             THEN Append(c1, [src |-> "loadAll", type |-> "onError",
                              events |-> errors, threw |-> throwsOnError])
             ELSE c1

\* loadAll from the decrypt loop to its end: onChange, onError, then
\* setupSubscription.
PouchLoadAllFinish(throwsOnChange, throwsOnError) ==
    /\ loadPc = "scanned"
    /\ calls' = calls \o LoadAllCalls(snap, throwsOnChange, throwsOnError)
    /\ changesHandler' = TRUE
    /\ loadPc' = "done"
    /\ UNCHANGED <<scope, budget, db, wrote, snap, arrived, fpVars, extVars,
                   processingChain, chainQ, pRun, pHandled, pConsole>>

\* handleChange for a deleted change or a record without d: the listener
\* calls it makes and whether it rejects.
HandleDeletion(change, throwsOnDelete) ==
    LET parsed == parseFullId(change._id)
    IN  IF parsed = Null
        THEN [calls |-> <<>>, rejected |-> FALSE]
        ELSE [calls |-> <<[src |-> "handleChange", type |-> "onDelete",
                           events |-> <<[_id |-> parsed.id, _table |-> parsed.type]>>,
                           threw |-> throwsOnDelete]>>,
              rejected |-> throwsOnDelete]

\* handleChange after `await this.decryptDoc(encryptedDoc)`: onChange inside
\* the try block, then onError for whatever the catch collected.
HandleDecrypted(change, throwsOnChange, throwsOnError) ==
    LET doc == decryptDoc(change)
    IN  IF doc = Null
        THEN [calls |-> <<[src |-> "handleChange", type |-> "onError",
                           events |-> <<[docId |-> change._id, cause |-> "decrypt"]>>,
                           threw |-> throwsOnError]>>,
              rejected |-> throwsOnError]
        ELSE IF throwsOnChange
        THEN [calls |-> <<[src |-> "handleChange", type |-> "onChange",
                           events |-> <<doc>>, threw |-> TRUE],
                          [src |-> "handleChange", type |-> "onError",
                           events |-> <<[docId |-> change._id, cause |-> "listener"]>>,
                           threw |-> throwsOnError]>>,
              rejected |-> throwsOnError]
        ELSE [calls |-> <<[src |-> "handleChange", type |-> "onChange",
                           events |-> <<doc>>, threw |-> FALSE]>>,
              rejected |-> FALSE]

\* Variant of ChainCatch for a chain built without `.catch`.
ChainCatch_NoCatch(rejected) ==
    IF rejected THEN [state |-> "rejected", logged |-> 0]
    ELSE [state |-> "fulfilled", logged |-> 0]

\* `.catch((err) => console.error(...))` on a link: the chain continues
\* fulfilled, a rejection is logged.
ChainCatch(rejected) ==
    [state |-> "fulfilled", logged |-> IF rejected THEN 1 ELSE 0]

\* A link settles: handleChange returned or threw.
LinkSettles(change, outcome) ==
    /\ calls' = calls \o outcome.calls
    /\ pHandled' = Append(pHandled, [change |-> change, rejected |-> outcome.rejected])
    /\ processingChain' = ChainCatch(outcome.rejected).state
    /\ pConsole' = pConsole + ChainCatch(outcome.rejected).logged

\* The next link of processingChain runs: `.then(() => this.handleChange(change))`
\* calls handleChange only on a fulfilled chain; handleChange runs up to its
\* first await.
ChainStart(throwsOnDelete) ==
    /\ pRun = Null
    /\ chainQ # <<>>
    /\ chainQ' = Tail(chainQ)
    /\ LET change == Head(chainQ)
       IN  IF processingChain # "fulfilled"
           THEN /\ processingChain' = ChainCatch(TRUE).state
                /\ pConsole' = pConsole + ChainCatch(TRUE).logged
                /\ UNCHANGED <<calls, pHandled, pRun>>
           ELSE IF change.d = NoD
           THEN /\ LinkSettles(change, HandleDeletion(change, throwsOnDelete))
                /\ pRun' = Null
           ELSE /\ pRun' = change
                /\ UNCHANGED <<calls, pHandled, processingChain, pConsole>>
    /\ UNCHANGED <<scope, budget, db, wrote, loadPc, snap, arrived, fpVars, extVars,
                   changesHandler>>

\* decryptDoc settles and handleChange runs to its end.
ChainResume(throwsOnChange, throwsOnError) ==
    /\ pRun # Null
    /\ LinkSettles(pRun, HandleDecrypted(pRun, throwsOnChange, throwsOnError))
    /\ pRun' = Null
    /\ UNCHANGED <<scope, budget, db, wrote, loadPc, snap, arrived, fpVars, extVars,
                   changesHandler, chainQ>>

InitPouch == InitCommon /\ CodecIdle /\ SubsIdle /\ StoreHelper /\ scope = Keys /\ budget = MaxWrites

NextPouch ==
    \/ \E k \in Keys, d \in Ciphertexts \cup {NoD} : PouchWrite(k, d)
    \/ PouchLoadAllScan
    \/ \E t1, t2 \in BOOLEAN : PouchLoadAllFinish(t1, t2)
    \/ \E t \in BOOLEAN : ChainStart(t)
    \/ \E t1, t2 \in BOOLEAN : ChainResume(t1, t2)

SpecPouch == InitPouch /\ [][NextPouch]_vars

----------------------------------------------------------------------------
(* EncryptionHelper.getKey: src/unnamed/part_000, both helper classes *)

\* The store operations that request the key: put through encryptDoc/encrypt,
\* get and loadAll through decryptDoc/decrypt.
Ops == {"put", "get", "loadAll"}

\* Primitives the pbkdf2 helper's derivation awaits in turn: importKey,
\* deriveBits, importKey in "derive" mode; digest, importKey in "raw" mode.
Primitives(mode) == IF mode = "derive" THEN 3 ELSE 2

AnyDerivationFailed ==
    \/ \E p \in 1..Len(promises) : promises[p].state = "rejected"
    \/ \E c \in 1..Len(callers) : callers[c].pc = "failed"

StartDerivation ==
    /\ derivations' = derivations + 1
    /\ retried' = (retried \/ AnyDerivationFailed)

\* getKey of the derive/raw helper: keyPromise is assigned the promise of the
\* async derivation before the first await, so a later caller finds it.
getKey(op) ==
    /\ helperClass = "pbkdf2"
    /\ Len(callers) < MaxCallers
    /\ IF keyPromise # 0
       THEN /\ callers' = Append(callers, [op |-> op, pc |-> "awaitKey",
                                           p |-> keyPromise])
            /\ UNCHANGED <<keyPromise, promises, derivations, retried>>
       ELSE /\ promises' = Append(promises, [state |-> "pending",
                                             left |-> Primitives(passphraseMode)])
            /\ keyPromise' = Len(promises) + 1
            /\ callers' = Append(callers, [op |-> op, pc |-> "awaitKey",
                                           p |-> Len(promises) + 1])
            /\ StartDerivation

\* getKey of the SHA-256 helper up to `await this.crypto.subtle.digest`:
\* keyPromise is still null while the digest is pending.
getKeySha256(op) ==
    /\ helperClass = "sha256"
    /\ Len(callers) < MaxCallers
    /\ IF keyPromise # 0
       THEN /\ callers' = Append(callers, [op |-> op, pc |-> "awaitKey",
                                           p |-> keyPromise])
            /\ UNCHANGED <<keyPromise, promises, derivations, retried>>
       ELSE /\ callers' = Append(callers, [op |-> op, pc |-> "digest", p |-> 0])
            /\ UNCHANGED <<keyPromise, promises>>
            /\ StartDerivation

\* The digest a SHA-256 getKey awaits settles: on success keyPromise is
\* assigned the importKey promise and returned; on failure getKey rejects.
DigestSettles(c, ok) ==
    /\ c \in 1..Len(callers)
    /\ callers[c].pc = "digest"
    /\ IF ok
       THEN /\ promises' = Append(promises, [state |-> "pending", left |-> 1])
            /\ keyPromise' = Len(promises) + 1
            /\ callers' = [callers EXCEPT ![c] = [@ EXCEPT !.pc = "awaitKey",
                                                           !.p = Len(promises) + 1]]
       ELSE /\ callers' = [callers EXCEPT ![c] = [@ EXCEPT !.pc = "failed"]]
            /\ UNCHANGED <<keyPromise, promises>>
    /\ UNCHANGED <<derivations, retried>>

\* The crypto primitive a key promise is waiting for settles.
PrimitiveSettles(p, ok) ==
    /\ p \in 1..Len(promises)
    /\ promises[p].state = "pending"
    /\ promises' = [promises EXCEPT ![p] =
                      IF ~ok THEN [state |-> "rejected", left |-> @.left]
                      ELSE IF @.left = 1 THEN [state |-> "fulfilled", left |-> 0]
                      ELSE [state |-> "pending", left |-> @.left - 1]]
    /\ UNCHANGED <<keyPromise, callers, derivations, retried>>

\* What the caller's `await this.getKey()` yields so far.
KeyResult(c) ==
    IF callers[c].pc = "digest" THEN "pending"
    ELSE IF callers[c].pc = "failed" THEN "rejected"
    ELSE promises[callers[c].p].state

\* How the store operation ends when its key request is rejected: put awaits
\* encryptDoc outside any try; get returns null from its catch; loadAll's
\* per-row catch turns the error into a DecryptionErrorEvent for onError.
OpOutcome(op, keyResult) ==
    IF keyResult = "pending" THEN "pending"
    ELSE IF keyResult = "fulfilled" THEN "proceeds"
    ELSE CASE op = "put"     -> "rejects"
           [] op = "get"     -> "returns null"
           [] op = "loadAll" -> "resolves, onError per record"

\* What a step of the helper leaves alone: the stores and the wire strings.
StoreVarsUnchanged ==
    UNCHANGED <<scope, budget, db, wrote, loadPc, snap, calls, arrived,
                fpVars, pouchVars>>

KeyFrame ==
    StoreVarsUnchanged
    /\ UNCHANGED <<helperClass, passphraseMode, cipherVars, conflictVars, syncVars,
                   remoteVars, codec, docVars, subscr, putCalls>>

InitKey ==
    /\ InitCommon /\ CodecIdle /\ SubsIdle /\ CipherIdle /\ scope = {} /\ budget = 0
    /\ \/ helperClass = "sha256" /\ passphraseMode = "none"
       \/ helperClass = "pbkdf2" /\ passphraseMode \in {"derive", "raw"}

NextKey ==
    \/ \E op \in Ops : getKey(op) /\ KeyFrame
    \/ \E op \in Ops : getKeySha256(op) /\ KeyFrame
    \/ \E c \in 1..Len(callers), ok \in BOOLEAN : DigestSettles(c, ok) /\ KeyFrame
    \/ \E p \in 1..Len(promises), ok \in BOOLEAN : PrimitiveSettles(p, ok) /\ KeyFrame

SpecKey == InitKey /\ [][NextKey]_vars

----------------------------------------------------------------------------
(* EncryptionHelper.encrypt / decrypt on the wire format: part_000:1457-1506 *)

HexDigits == <<"0", "1", "2", "3", "4", "5", "6", "7", "8", "9",
               "a", "b", "c", "d", "e", "f">>

\* Value of a hexadecimal digit, -1 for any other character.
HexVal(c) ==
    IF \E i \in 1..16 : HexDigits[i] = c
    THEN (CHOOSE i \in 1..16 : HexDigits[i] = c) - 1
    ELSE -1

\* Variant of toHexString without padStart: a byte below 16 gives one digit.
RECURSIVE toHexString_NoPad(_)
toHexString_NoPad(bytes) ==
    IF bytes = <<>> THEN <<>>
    ELSE (IF bytes[1] < 16 THEN <<HexDigits[bytes[1] + 1]>>
          ELSE <<HexDigits[(bytes[1] \div 16) + 1], HexDigits[(bytes[1] % 16) + 1]>>)
         \o toHexString_NoPad(Tail(bytes))

\* bytes.reduce((str, byte) => str + byte.toString(16).padStart(2, "0"), "")
RECURSIVE toHexString(_)
toHexString(bytes) ==
    IF bytes = <<>> THEN <<>>
    ELSE <<HexDigits[(bytes[1] \div 16) + 1], HexDigits[(bytes[1] % 16) + 1]>>
         \o toHexString(Tail(bytes))

\* parseInt(byte, 16) stored into a Uint8Array: the leading hexadecimal digits
\* of the chunk; NaN (no leading digit, or only the prefix "0x") is stored as 0.
ParseHexByte(chunk) ==
    IF HexVal(chunk[1]) < 0 THEN 0
    ELSE IF Len(chunk) = 2 /\ chunk[1] = "0" /\ chunk[2] = "x" THEN 0
    ELSE IF Len(chunk) = 2 /\ HexVal(chunk[2]) >= 0
         THEN 16 * HexVal(chunk[1]) + HexVal(chunk[2])
         ELSE HexVal(chunk[1])

\* hexString.match(/.{1,2}/g)!.map(...): Null stands for the TypeError that
\* `.map` of the null match of an empty string raises.
RECURSIVE HexChunks(_)
HexChunks(hexString) ==
    IF Len(hexString) <= 2 THEN <<ParseHexByte(hexString)>>
    ELSE <<ParseHexByte(SubSeq(hexString, 1, 2))>>
         \o HexChunks(SubSeq(hexString, 3, Len(hexString)))

fromHexString(hexString) ==
    IF hexString = <<>> THEN Null ELSE [bytes |-> HexChunks(hexString)]

\* data.split("|")
RECURSIVE Split(_, _)
Split(str, sep) ==
    LET at == IndexOfFrom(str, sep, 1)
    IN  IF at = 0 THEN <<str>>
        ELSE <<SubSeq(str, 1, at - 1)>> \o Split(SubSeq(str, at + 1, Len(str)), sep)

IsHighSurrogate(u) == u \in 55296..56319
IsLowSurrogate(u) == u \in 56320..57343

\* new TextEncoder().encode(data): UTF-8 of the string's scalar values; a
\* surrogate that is not part of a pair is encoded as U+FFFD.
RECURSIVE TextEncode(_)
TextEncode(units) ==
    IF units = <<>> THEN <<>>
    ELSE LET u == units[1]
         IN  IF u < 128 THEN <<u>> \o TextEncode(Tail(units))
             ELSE IF u < 2048
             THEN <<192 + (u \div 64), 128 + (u % 64)>> \o TextEncode(Tail(units))
             ELSE IF IsHighSurrogate(u) /\ Len(units) >= 2 /\ IsLowSurrogate(units[2])
             THEN LET cp == 65536 + (u - 55296) * 1024 + (units[2] - 56320)
                  IN  <<240 + (cp \div 262144), 128 + ((cp \div 4096) % 64),
                        128 + ((cp \div 64) % 64), 128 + (cp % 64)>>
                      \o TextEncode(SubSeq(units, 3, Len(units)))
             ELSE IF IsHighSurrogate(u) \/ IsLowSurrogate(u)
             THEN <<239, 191, 189>> \o TextEncode(Tail(units))
             ELSE <<224 + (u \div 4096), 128 + ((u \div 64) % 64), 128 + (u % 64)>>
                  \o TextEncode(Tail(units))

IsContinuation(b) == b \in 128..191

\* UTF-8 decoding with replacement: an ill-formed byte gives U+FFFD.
RECURSIVE Utf8Decode(_)
Utf8Decode(bytes) ==
    IF bytes = <<>> THEN <<>>
    ELSE LET b == bytes[1]
             n == Len(bytes)
         IN  IF b < 128 THEN <<b>> \o Utf8Decode(Tail(bytes))
             ELSE IF b \in 194..223 /\ n >= 2 /\ IsContinuation(bytes[2])
             THEN <<(b - 192) * 64 + (bytes[2] - 128)>>
                  \o Utf8Decode(SubSeq(bytes, 3, n))
             ELSE IF /\ b \in 224..239 /\ n >= 3
                     /\ IsContinuation(bytes[2]) /\ IsContinuation(bytes[3])
                     /\ (b - 224) * 4096 + (bytes[2] - 128) * 64 + (bytes[3] - 128)
                          \in (2048..55295) \cup (57344..65535)
             THEN <<(b - 224) * 4096 + (bytes[2] - 128) * 64 + (bytes[3] - 128)>>
                  \o Utf8Decode(SubSeq(bytes, 4, n))
             ELSE IF /\ b \in 240..244 /\ n >= 4
                     /\ IsContinuation(bytes[2]) /\ IsContinuation(bytes[3])
                     /\ IsContinuation(bytes[4])
                     /\ (b - 240) * 262144 + (bytes[2] - 128) * 4096
                          + (bytes[3] - 128) * 64 + (bytes[4] - 128) \in 65536..1114111
             THEN LET cp == (b - 240) * 262144 + (bytes[2] - 128) * 4096
                              + (bytes[3] - 128) * 64 + (bytes[4] - 128)
                  IN  <<55296 + ((cp - 65536) \div 1024), 56320 + ((cp - 65536) % 1024)>>
                      \o Utf8Decode(SubSeq(bytes, 5, n))
             ELSE <<65533>> \o Utf8Decode(Tail(bytes))

\* new TextDecoder().decode(decrypted): ignoreBOM is false, so a leading
\* byte order mark EF BB BF is consumed before decoding.
TextDecode(bytes) ==
    IF Len(bytes) >= 3 /\ SubSeq(bytes, 1, 3) = <<239, 187, 191>>
    THEN Utf8Decode(SubSeq(bytes, 4, Len(bytes)))
    ELSE Utf8Decode(bytes)

\* The key getKey resolves to.  PBKDF2 / SHA-256 and importKey are external
\* primitives: all that is kept of them is that the key is a function of the
\* passphrase and the mode, different for different passphrases.
DeriveKey(passphrase, mode) ==
    (IF passphrase = "A" THEN 1 ELSE 2) + (IF mode = "raw" THEN 16 ELSE 0)

RECURSIVE SumBytes(_)
SumBytes(bytes) == IF bytes = <<>> THEN 0 ELSE bytes[1] + SumBytes(Tail(bytes))

\* AES-GCM, an external primitive, reduced to what the helper relies on: the
\* output is the input's length plus an authentication tag (one byte here),
\* decryption inverts encryption under the same key and IV, and the tag
\* depends on the key, the IV and every ciphertext byte.
GcmStream(key, iv, i) == (key * 31 + SumBytes(iv) * 7 + i * 13) % 256

GcmTag(key, iv, ct) ==
    (key * 101 + SumBytes(iv) * 3 + SumBytes(ct) * 5 + Len(ct) + 1) % 256

SubtleEncrypt(key, iv, encoded) ==
    LET ct == [i \in 1..Len(encoded) |-> (encoded[i] + GcmStream(key, iv, i)) % 256]
    IN  Append(ct, GcmTag(key, iv, ct))

\* Null stands for the OperationError of a failed authentication.
SubtleDecrypt(key, iv, bytes) ==
    IF Len(bytes) < 1 THEN Null
    ELSE LET ct == SubSeq(bytes, 1, Len(bytes) - 1)
         IN  IF bytes[Len(bytes)] # GcmTag(key, iv, ct) THEN Null
             ELSE [bytes |-> [i \in 1..Len(ct) |->
                                (ct[i] - GcmStream(key, iv, i)) % 256]]

\* EncryptionHelper.encrypt once the key is there.
EncryptionHelper_encrypt(str, key, iv) ==
    toHexString(iv) \o <<"|">> \o toHexString(SubtleEncrypt(key, iv, TextEncode(str)))

Failure(kind) == [kind |-> kind, text |-> <<>>]

\* EncryptionHelper.decrypt once the key is there: the split and the hex
\* decoding of every part run before the try block, subtle.decrypt inside it.
EncryptionHelper_decrypt(str, key) ==
    LET parts == Split(str, "|")
    IN  IF \E k \in 1..Len(parts) : fromHexString(parts[k]) = Null
        THEN Failure("TypeError")
        ELSE IF Len(parts) < 2
        THEN Failure("DecryptionError")
        ELSE LET decrypted == SubtleDecrypt(key, fromHexString(parts[1]).bytes,
                                            fromHexString(parts[2]).bytes)
             IN  IF decrypted = Null THEN Failure("DecryptionError")
                 ELSE [kind |-> "ok", text |-> TextDecode(decrypted.bytes)]

\* Ways the wire string is damaged between encrypt and decrypt.
Corruptions == {"empty", "noSeparator", "nonHex", "emptyHalf", "tamperIv",
                "tamperCt"}

OtherDigit(c) == IF c = "0" THEN "1" ELSE "0"

Corrupt(kind, str) ==
    CASE kind = "empty"       -> <<>>
      [] kind = "noSeparator" -> SubSeq(str, 1, IndexOfFrom(str, "|", 1) - 1)
                                 \o SubSeq(str, IndexOfFrom(str, "|", 1) + 1, Len(str))
      [] kind = "nonHex"      -> <<"g", "g", "g", "g", "|", "h", "h", "h", "h">>
      [] kind = "emptyHalf"   -> SubSeq(str, 1, IndexOfFrom(str, "|", 1))
      [] kind = "tamperIv"    -> <<OtherDigit(str[1])>> \o Tail(str)
      [] kind = "tamperCt"    -> SubSeq(str, 1, Len(str) - 1)
                                 \o <<OtherDigit(str[Len(str)])>>

\* helper.encrypt(data)
Encrypt(iv) ==
    /\ cycles < MaxCycles
    /\ wire' = EncryptionHelper_encrypt(data, DeriveKey(encPass, passphraseMode), iv)
    /\ sent' = data
    /\ corrupted' = "no"
    /\ out' = Null
    /\ cycles' = cycles + 1
    /\ UNCHANGED <<encPass, decPass, data, orig>>

\* The stored string is damaged (storage, transport, an attacker).
Damage(kind) ==
    /\ cycles > 0
    /\ corrupted = "no"
    /\ out = Null
    /\ wire' = Corrupt(kind, wire)
    /\ corrupted' = kind
    /\ UNCHANGED <<encPass, decPass, data, orig, sent, out, cycles>>

\* helper.decrypt(wire); what it returns is what the next encrypt is given.
Decrypt ==
    /\ cycles > 0
    /\ out = Null
    /\ LET r == EncryptionHelper_decrypt(wire, DeriveKey(decPass, passphraseMode))
       IN  /\ out' = r
           /\ data' = IF r.kind = "ok" THEN r.text ELSE data
    /\ UNCHANGED <<encPass, decPass, orig, wire, sent, corrupted, cycles>>

CipherFrame ==
    StoreVarsUnchanged /\ UNCHANGED <<helperVars, conflictVars, syncVars, remoteVars, codec, docVars, subscr, putCalls>>

InitCipher ==
    /\ InitCommon /\ CodecIdle /\ SubsIdle /\ scope = {} /\ budget = 0
    /\ helperClass = "pbkdf2" /\ passphraseMode \in {"derive", "raw"}
    /\ encPass \in Passphrases /\ decPass \in Passphrases
    /\ data \in Payloads /\ orig = data /\ sent = <<>>
    /\ wire = <<>> /\ out = Null
    /\ corrupted = "no" /\ cycles = 0

NextCipher ==
    \/ \E iv \in IVs : Encrypt(iv) /\ CipherFrame
    \/ \E kind \in Corruptions : Damage(kind) /\ CipherFrame
    \/ Decrypt /\ CipherFrame

SpecCipher == InitCipher /\ [][NextCipher]_vars

----------------------------------------------------------------------------
(* Conflicts of the PouchDB store: part_000:486-538, 622-665.              *)
(* PouchDB keeps the revision tree of a document; the winning revision is  *)
(* the live leaf with the highest generation (ties: highest hash), the     *)
(* other live leaves are its _conflicts. A revision body never changes.    *)

FullId == KeyAX

Live(t) == {l \in t : l.leaf /\ ~l.deleted}

RevLess(a, b) == a.gen < b.gen \/ (a.gen = b.gen /\ a.hash < b.hash)

winningRev(t) ==
    CHOOSE l \in Live(t) : \A m \in Live(t) : m = l \/ RevLess(m.rev, l.rev)

RECURSIVE SortRevs(_)
SortRevs(S) ==
    IF S = {} THEN <<>>
    ELSE LET top == CHOOSE r \in S : \A q \in S : q = r \/ RevLess(q, r)
         IN  <<top>> \o SortRevs(S \ {top})

collectConflicts(t) ==
    SortRevs({l.rev : l \in Live(t) \ {winningRev(t)}})

\* db.get(fullId, {conflicts: true}); Null stands for the 404 rejection.
dbGet(t) ==
    IF Live(t) = {} THEN Null
    ELSE [_id |-> FullId, _rev |-> winningRev(t).rev, d |-> winningRev(t).d,
          _conflicts |-> collectConflicts(t)]

\* db.get(fullId, {rev}); Null when the fetch of that revision rejects.
dbGetRev(t, rev, fails) ==
    IF rev \in fails THEN Null
    ELSE LET l == CHOOSE m \in t : m.rev = rev
         IN  [_id |-> FullId, _rev |-> rev, d |-> l.d]

\* The per-revision try block of buildConflictInfo: the decrypted revision,
\* or Null when the fetch or decryptDoc threw.
LoserOf(t, rev, fails) ==
    IF dbGetRev(t, rev, fails) = Null THEN Null
    ELSE decryptDoc(dbGetRev(t, rev, fails))

RevError(rev) == [docId |-> [id |-> FullId, rev |-> rev]]

\* Variant of the loop that gives up on the conflict at the first revision
\* it cannot fetch or decrypt.
RECURSIVE ConflictLosers_FailFast(_, _, _)
ConflictLosers_FailFast(t, revs, fails) ==
    IF revs = <<>> THEN <<>>
    ELSE LET r == LoserOf(t, Head(revs), fails)
         IN  IF r = Null THEN <<>>
             ELSE <<r>> \o ConflictLosers_FailFast(t, Tail(revs), fails)

RECURSIVE ConflictLosers(_, _, _)
ConflictLosers(t, revs, fails) ==
    IF revs = <<>> THEN <<>>
    ELSE LET r == LoserOf(t, Head(revs), fails)
         IN  (IF r = Null THEN <<>> ELSE <<r>>)
             \o ConflictLosers(t, Tail(revs), fails)

RECURSIVE ConflictErrors(_, _, _)
ConflictErrors(t, revs, fails) ==
    IF revs = <<>> THEN <<>>
    ELSE (IF LoserOf(t, Head(revs), fails) = Null
          THEN <<RevError(Head(revs))>> ELSE <<>>)
         \o ConflictErrors(t, Tail(revs), fails)

\* buildConflictInfo: the ConflictInfo and the batch handed to onError; the
\* call throws when parseFullId fails or when the onError listener throws.
buildConflictInfo(t, fullId, currentRev, conflictRevs, winnerDoc, fails, throwsOnError) ==
    LET parsed == parseFullId(fullId)
        errors == ConflictErrors(t, conflictRevs, fails)
    IN  IF parsed = Null THEN [threw |-> TRUE, errors |-> <<>>]
        ELSE IF errors # <<>> /\ throwsOnError THEN [threw |-> TRUE, errors |-> errors]
        ELSE [threw |-> FALSE, errors |-> errors,
              info |-> [docId |-> fullId, table |-> parsed.type, id |-> parsed.id,
                        currentRev |-> currentRev, conflictRevs |-> conflictRevs,
                        winner |-> winnerDoc,
                        losers |-> ConflictLosers(t, conflictRevs, fails)]]

\* getConflictInfo as a function of the revisions it reads: every throw ends
\* in its catch and gives null.
ConflictInfoOf(t, fails, throwsOnError) ==
    LET encryptedDoc == dbGet(t)
    IN  IF encryptedDoc = Null THEN [result |-> Null, errors |-> <<>>]
        ELSE IF encryptedDoc._conflicts = <<>> THEN [result |-> Null, errors |-> <<>>]
        ELSE IF decryptDoc(encryptedDoc) = Null THEN [result |-> Null, errors |-> <<>>]
        ELSE LET b == buildConflictInfo(t, encryptedDoc._id, encryptedDoc._rev,
                                        encryptedDoc._conflicts,
                                        decryptDoc(encryptedDoc), fails, throwsOnError)
             IN  [result |-> IF b.threw THEN Null ELSE b.info, errors |-> b.errors]

\* EncryptedStore.get as a function of the revisions: the decrypted current
\* revision, or Null.
DocOf(t) ==
    IF dbGet(t) = Null THEN Null ELSE decryptDoc(dbGet(t))

Revs(t) == {l.rev : l \in t}

\* A revision written elsewhere reaches this database by replication.
Replicate(rev, d) ==
    /\ Cardinality({l \in revTree : l.rev.hash \in Hashes}) < MaxRevs
    /\ rev \notin Revs(revTree)
    /\ revTree' = revTree \cup {[rev |-> rev, d |-> d, deleted |-> FALSE, leaf |-> TRUE]}
    /\ conflictOp' = IF conflictOp.name = "idle" THEN conflictOp
                     ELSE [conflictOp EXCEPT !.disturbed = TRUE]
    /\ settled' = [name |-> "none"]

\* The fetches that may reject during one call: none, or that of one revision.
FetchFailures(t) == {{}} \cup {{l.rev} : l \in Live(t)}

\* getConflictInfo(table, id). The revisions are read once by db.get and the
\* bodies of the conflicting revisions are immutable, so the call is one step;
\* fails are the revisions whose fetch rejects.
getConflictInfo(fails, throwsOnError) ==
    /\ conflictOp.name = "idle"
    /\ revTree # {}
    /\ dbGet(revTree) # Null
    /\ fails \subseteq {dbGet(revTree)._conflicts[k] : k \in 1..Len(dbGet(revTree)._conflicts)}
    /\ LET r == ConflictInfoOf(revTree, fails, throwsOnError)
       IN  /\ throwsOnError => r.errors # <<>>
           /\ settled' = [name |-> "getConflictInfo", before |-> revTree,
                          fails |-> fails, threw |-> throwsOnError,
                          result |-> r.result, errors |-> r.errors]
    /\ UNCHANGED <<revTree, conflictOp>>

\* loadAll's row loop and listener calls (part_000:116-154) over two rows in
\* key order: the document of the revision tree, with the conflicts allDocs
\* reports for it, and a second stored document b_x without conflicts whose
\* ciphertext is other (NoD: not stored). The result lists the listener
\* invocations in order, those buildConflictInfo makes included.
loadAllCalls(t, other, fails, throwsOnError) ==
    LET first == dbGet(t)
        firstDoc == IF first = Null THEN Null ELSE decryptDoc(first)
        built == firstDoc # Null /\ first._conflicts # <<>>
        b == buildConflictInfo(t, first._id, first._rev, first._conflicts, firstDoc,
                               fails, throwsOnError)
        second == [_id |-> KeyBX, d |-> other]
        secondDoc == IF other = NoD THEN Null ELSE decryptDoc(second)
        inner == IF built /\ b.errors # <<>>
                 THEN <<[type |-> "onError", events |-> b.errors,
                         threw |-> throwsOnError]>>
                 ELSE <<>>
        docs == (IF firstDoc # Null THEN <<firstDoc>> ELSE <<>>)
                \o (IF secondDoc # Null THEN <<secondDoc>> ELSE <<>>)
        errors == (IF first # Null /\ (firstDoc = Null \/ (built /\ b.threw))
                   THEN <<[docId |-> [id |-> FullId]]>> ELSE <<>>)
                  \o (IF other # NoD /\ secondDoc = Null
                      THEN <<[docId |-> [id |-> KeyBX]]>> ELSE <<>>)
        conflicts == IF built /\ ~b.threw THEN <<b.info>> ELSE <<>>
        c1 == IF docs # <<>>
              THEN Append(inner, [type |-> "onChange", events |-> docs, threw |-> FALSE])
              ELSE inner
        c2 == IF errors # <<>>
              THEN Append(c1, [type |-> "onError", events |-> errors,
                               threw |-> throwsOnError])
              ELSE c1
    IN  IF conflicts # <<>> /\ ~(errors # <<>> /\ throwsOnError)
        THEN Append(c2, [type |-> "onConflict", events |-> conflicts, threw |-> FALSE])
        ELSE c2

\* loadAll on the database holding the revision tree and the second document.
LoadAllConflicts(other, fails, throwsOnError) ==
    /\ conflictOp.name = "idle"
    /\ dbGet(revTree) # Null
    /\ fails \subseteq {dbGet(revTree)._conflicts[k] : k \in 1..Len(dbGet(revTree)._conflicts)}
    /\ settled' = [name |-> "loadAll", before |-> revTree, other |-> other,
                   listenerThrows |-> throwsOnError,
                   calls |-> loadAllCalls(revTree, other, fails, throwsOnError)]
    /\ UNCHANGED <<revTree, conflictOp>>

\* Variant of the entry check that lets a document without conflicts through.
resolveConflictCheck_Skip(doc) ==
    IF doc = Null THEN "not_found" ELSE "ok"

\* The entry of resolveConflict: db.get rejects, or there is nothing to resolve.
resolveConflictCheck(doc) ==
    IF doc = Null THEN "not_found"
    ELSE IF doc._conflicts = <<>> THEN "No conflicts found"
    ELSE "ok"

Rejected(error, before, after) ==
    [name |-> "resolveConflict", outcome |-> "rejected", error |-> error,
     before |-> before, after |-> after]

\* resolveConflict(table, id, winningDoc) up to its first await inside put.
ResolveStart(pt) ==
    /\ conflictOp.name = "idle"
    /\ revTree # {}
    /\ \A l \in revTree : l.rev.gen < MaxGen
    /\ LET doc == dbGet(revTree)
           check == resolveConflictCheck(doc)
       IN  IF check # "ok"
           THEN /\ settled' = Rejected(check, revTree, revTree)
                /\ UNCHANGED conflictOp
           ELSE /\ conflictOp' = [name |-> "resolveConflict", pc |-> "get",
                                  chosen |-> pt, conflicts |-> doc._conflicts,
                                  existing |-> doc._rev,
                                  hadConflicts |-> doc._conflicts # <<>>,
                                  reported |-> doc._conflicts, log |-> <<>>,
                                  disturbed |-> FALSE, warned |-> 0]
                /\ settled' = [name |-> "none"]
    /\ UNCHANGED revTree

\* put: `existing = await this.db.get(fullId)`.
ResolvePutGet ==
    /\ conflictOp.name = "resolveConflict" /\ conflictOp.pc = "get"
    /\ dbGet(revTree) # Null
    /\ conflictOp' = [conflictOp EXCEPT !.pc = "put", !.existing = dbGet(revTree)._rev]
    /\ settled' = [name |-> "none"]
    /\ UNCHANGED revTree

Finish(op, t) ==
    [name |-> "resolveConflict", outcome |-> "resolved", chosen |-> op.chosen,
     after |-> t, hadConflicts |-> op.hadConflicts,
     reported |-> op.reported, log |-> op.log,
     disturbed |-> op.disturbed, warned |-> op.warned]

\* The revision l gets the child c and stops being a leaf.
Extend(t, rev, c) ==
    {IF l.rev = rev THEN [l EXCEPT !.leaf = FALSE] ELSE l : l \in t} \cup {c}

\* put: `await this.db.put(encryptedDoc)`: a child of the revision read by
\* ResolvePutGet, or a rejection that resolveConflict passes on.
ResolvePutWrite(ok) ==
    /\ conflictOp.name = "resolveConflict" /\ conflictOp.pc = "put"
    /\ LET parent == conflictOp.existing
           rev == [gen |-> parent.gen + 1, hash |-> LocalHash]
           child == [rev |-> rev, deleted |-> FALSE, leaf |-> TRUE,
                     d |-> [kind |-> "enc", key |-> Passphrase, pt |-> conflictOp.chosen]]
           after == Extend(revTree, parent, child)
           op == [conflictOp EXCEPT !.pc = "remove",
                                    !.log = Append(@, [do |-> "put", rev |-> rev])]
       IN  IF ok
           THEN /\ rev \notin Revs(revTree)
                /\ revTree' = after
                /\ IF conflictOp.conflicts = <<>>
                   THEN /\ settled' = Finish(op, after)
                        /\ conflictOp' = [name |-> "idle"]
                   ELSE /\ settled' = [name |-> "none"]
                        /\ conflictOp' = op
           ELSE /\ settled' = Rejected("put", revTree, revTree)
                /\ conflictOp' = [name |-> "idle"]
                /\ UNCHANGED revTree

\* db.remove(fullId, rev): the leaf gets a deleted child.
Tombstone(rev) ==
    [rev |-> [gen |-> rev.gen + 1, hash |-> 0], d |-> NoD, deleted |-> TRUE,
     leaf |-> TRUE]

\* Variant of the removal loop that stops at the first db.remove that rejects.
ResolveRemove_StopAtFailure(ok) ==
    /\ conflictOp.name = "resolveConflict" /\ conflictOp.pc = "remove"
    /\ LET rev == Head(conflictOp.conflicts)
           after == IF ok THEN Extend(revTree, rev, Tombstone(rev)) ELSE revTree
           op == [conflictOp EXCEPT !.conflicts = IF ok THEN Tail(conflictOp.conflicts)
                                                  ELSE <<>>,
                                    !.log = Append(@, [do |-> "remove", rev |-> rev,
                                                       ok |-> ok]),
                                    !.warned = IF ok THEN @ ELSE @ + 1]
       IN  /\ revTree' = after
           /\ IF op.conflicts = <<>>
              THEN /\ settled' = Finish(op, after)
                   /\ conflictOp' = [name |-> "idle"]
              ELSE /\ settled' = [name |-> "none"]
                   /\ conflictOp' = op

\* One turn of the removal loop: a rejected db.remove is logged with
\* console.warn and the loop goes on.
ResolveRemove(ok) ==
    /\ conflictOp.name = "resolveConflict" /\ conflictOp.pc = "remove"
    /\ LET rev == Head(conflictOp.conflicts)
           after == IF ok THEN Extend(revTree, rev, Tombstone(rev)) ELSE revTree
           op == [conflictOp EXCEPT !.conflicts = Tail(conflictOp.conflicts),
                                    !.log = Append(@, [do |-> "remove", rev |-> rev,
                                                       ok |-> ok]),
                                    !.warned = IF ok THEN @ ELSE @ + 1]
       IN  /\ revTree' = after
           /\ IF op.conflicts = <<>>
              THEN /\ settled' = Finish(op, after)
                   /\ conflictOp' = [name |-> "idle"]
              ELSE /\ settled' = [name |-> "none"]
                   /\ conflictOp' = op

ConflictFrame ==
    StoreVarsUnchanged /\ UNCHANGED <<helperVars, cipherVars, syncVars, remoteVars, codec, docVars, subscr, putCalls>>

InitConflict == InitCommon /\ CodecIdle /\ SubsIdle /\ StoreHelper /\ scope = {} /\ budget = 0

NextConflict ==
    \/ \E g \in RepGens, h \in Hashes, d \in RevData :
          Replicate([gen |-> g, hash |-> h], d) /\ ConflictFrame
    \/ \E fails \in FetchFailures(revTree), t \in BOOLEAN :
          getConflictInfo(fails, t) /\ ConflictFrame
    \/ \E pt \in Chosen : ResolveStart(pt) /\ ConflictFrame
    \/ ResolvePutGet /\ ConflictFrame
    \/ \E ok \in BOOLEAN : ResolvePutWrite(ok) /\ ConflictFrame
    \/ \E ok \in BOOLEAN : ResolveRemove(ok) /\ ConflictFrame

SpecConflict == InitConflict /\ [][NextConflict]_vars

\* loadAll on databases that replication has filled.
NextLoad ==
    \/ \E g \in RepGens, h \in Hashes, d \in RevData :
          Replicate([gen |-> g, hash |-> h], d) /\ ConflictFrame
    \/ \E other \in {NoD, Good, Bad}, fails \in FetchFailures(revTree), t \in BOOLEAN :
          LoadAllConflicts(other, fails, t) /\ ConflictFrame

SpecLoad == InitConflict /\ [][NextLoad]_vars

----------------------------------------------------------------------------
(* Remote sync of the PouchDB store: part_000:231-324, 365-483.            *)
(* db.sync returns a replication object; a live one pushes the local       *)
(* changes feed to the remote in sequence order, a batch at a time, and    *)
(* emits a "change" event per batch. The changes feed holds the latest     *)
(* revision of each document.                                              *)

IsDesign(id) == id[1] = "_design/"

Url(u) == [url |-> u]

\* disconnectRemote keeps the url (variant).
disconnectRemote_KeepsUrl(st) ==
    [st EXCEPT !.syncs = IF st.syncHandler = 0 THEN @
                         ELSE [@ EXCEPT ![st.syncHandler].state = "cancelled"],
               !.syncHandler = 0]

\* disconnectRemote on the store fields st = [syncs, syncHandler, remoteUrl].
disconnectRemote(st) ==
    [st EXCEPT !.syncs = IF st.syncHandler = 0 THEN @
                         ELSE [@ EXCEPT ![st.syncHandler].state = "cancelled"],
               !.syncHandler = 0,
               !.remoteUrl = Null]

StoreSync == [syncs |-> syncs, syncHandler |-> syncHandler, remoteUrl |-> remoteUrl]

SetStoreSync(st) ==
    /\ syncs' = st.syncs
    /\ syncHandler' = st.syncHandler
    /\ remoteUrl' = st.remoteUrl

\* A write to the local database: the document's entry in the changes feed
\* moves to the end.
FeedAfter(feed0, item) ==
    SelectSeq(feed0, LAMBDA e : e.id # item.id) \o <<item>>

\* The application writes a document (store.put, or a design document).
SyncPut(id) ==
    /\ puts < MaxPuts
    /\ puts' = puts + 1
    /\ local' = [local EXCEPT ![id] = [ver |-> @.ver + 1, deleted |-> FALSE]]
    /\ unpushed' = FeedAfter(unpushed, [id |-> id, ver |-> local[id].ver + 1,
                                        deleted |-> FALSE, by |-> "put"])
    /\ UNCHANGED <<syncs, syncHandler, remoteUrl, configured, remote, das, dal, syncNowLog>>

\* connectRemote up to its returned promise: the previous handle is cancelled,
\* the new one is stored.
connectRemote ==
    /\ Len(syncs) < MaxSyncs
    /\ LET st == disconnectRemote(StoreSync)
       IN  SetStoreSync([st EXCEPT !.syncs = Append(@, [kind |-> "live", state |-> "active"]),
                                   !.syncHandler = Len(st.syncs) + 1,
                                   !.remoteUrl = Url("remote")])
    /\ configured' = TRUE
    /\ UNCHANGED <<local, unpushed, remote, puts, das, dal, syncNowLog>>

DisconnectRemote ==
    /\ syncHandler # 0 \/ remoteUrl # Null
    /\ SetStoreSync(disconnectRemote(StoreSync))
    /\ configured' = FALSE
    /\ UNCHANGED <<local, unpushed, remote, puts, das, dal, syncNowLog>>

\* syncNow: rejects without a remoteUrl, else starts a one-time db.sync that
\* the store keeps no reference to.
syncNow ==
    IF remoteUrl = Null
    THEN /\ syncNowLog' = [outcome |-> "rejected", configured |-> configured]
         /\ UNCHANGED <<syncs, syncHandler, remoteUrl, configured, local, unpushed,
                        remote, puts, das, dal>>
    ELSE /\ Len(syncs) < MaxSyncs
         /\ syncs' = Append(syncs, [kind |-> "once", state |-> "active"])
         /\ syncNowLog' = [outcome |-> "started", configured |-> configured]
         /\ UNCHANGED <<syncHandler, remoteUrl, configured, local, unpushed,
                        remote, puts, das, dal>>

\* The "complete" event of a one-time sync.
SyncComplete(i) ==
    /\ syncs[i].kind = "once" /\ syncs[i].state = "active"
    /\ syncs' = [syncs EXCEPT ![i].state = "complete"]
    /\ UNCHANGED <<syncHandler, remoteUrl, configured, local, unpushed, remote, puts,
                   das, dal, syncNowLog>>

\* deleteAllAndSync's changeHandler for a push of docsWritten documents.
changeHandler(op, docsWritten) ==
    LET count == op.changeCount + docsWritten
    IN  IF count >= op.n /\ ~op.resolved
        THEN [op EXCEPT !.changeCount = count, !.resolved = TRUE, !.timer = "cleared",
                        !.listeners = IF syncHandler = 0 THEN @ ELSE 0,
                        !.outcome = IF @ = "pending" THEN "resolved" ELSE @,
                        !.pc = "done"]
        ELSE [op EXCEPT !.changeCount = count]

\* deleteAllAndSync's errorHandler.
errorHandler(op) ==
    IF ~op.resolved
    THEN [op EXCEPT !.resolved = TRUE, !.timer = "cleared",
                    !.listeners = IF syncHandler = 0 THEN @ ELSE 0,
                    !.outcome = IF @ = "pending" THEN "rejected: sync error" ELSE @,
                    !.pc = "done"]
    ELSE op

Listening(i) == das.pc # "idle" /\ das.listeners = i

\* An active sync writes the first k entries of the changes feed to the
\* remote and emits "change" with direction push.
Push(i, k) ==
    /\ syncs[i].state = "active"
    /\ k \in 1..Len(unpushed)
    /\ remote' = remote \cup {unpushed[j] : j \in 1..k}
    /\ unpushed' = SubSeq(unpushed, k + 1, Len(unpushed))
    /\ das' = IF Listening(i) THEN changeHandler(das, k) ELSE das
    /\ UNCHANGED <<syncs, syncHandler, remoteUrl, configured, local, puts, dal, syncNowLog>>

\* A sync emits "error" and stops.
SyncError(i) ==
    /\ syncs[i].state = "active"
    /\ syncs' = [syncs EXCEPT ![i].state = "error"]
    /\ das' = IF Listening(i) THEN errorHandler(das) ELSE das
    /\ UNCHANGED <<syncHandler, remoteUrl, configured, local, unpushed, remote, puts,
                   dal, syncNowLog>>

\* db.allDocs filtered: the non-design documents that exist, with their revisions.
DocsToDelete ==
    {[id |-> id, ver |-> local[id].ver] :
        id \in {d \in SyncDocs : ~IsDesign(d) /\ local[d].ver > 0 /\ ~local[d].deleted}}

\* db.bulkDocs of the tombstones: a document whose revision is no longer the
\* one listed is left alone (409 in the result array).
Deletable(docs) == {d \in docs : local[d.id].ver = d.ver /\ ~local[d.id].deleted}

RECURSIVE FeedAfterAll(_, _, _)
FeedAfterAll(feed0, ids, by) ==
    IF ids = <<>> THEN feed0
    ELSE FeedAfterAll(FeedAfter(feed0, [id |-> Head(ids), ver |-> local[Head(ids)].ver + 1,
                                        deleted |-> TRUE, by |-> by]),
                      Tail(ids), by)

BulkDelete(docs, by) ==
    LET ids == {d.id : d \in Deletable(docs)}
    IN  /\ local' = [id \in SyncDocs |->
                        IF id \in ids THEN [ver |-> local[id].ver + 1, deleted |-> TRUE]
                        ELSE local[id]]
        /\ unpushed' = FeedAfterAll(unpushed,
                                    SelectSeq(AllDocsOrder, LAMBDA id : id \in ids), by)

DasIdle == [pc |-> "idle"]

\* deleteAllAndSync up to `await this.db.allDocs`.
DasStart ==
    /\ das.pc \in {"idle", "done"}
    /\ das' = IF syncHandler = 0
              THEN [pc |-> "done", outcome |-> "rejected: not connected",
                    docs |-> {}, deleted |-> {}, n |-> 0, changeCount |-> 0,
                    resolved |-> FALSE, timer |-> "none", listeners |-> 0]
              ELSE [pc |-> "allDocs", outcome |-> "pending",
                    docs |-> {}, deleted |-> {}, n |-> 0, changeCount |-> 0,
                    resolved |-> FALSE, timer |-> "none", listeners |-> 0]
    /\ UNCHANGED <<syncs, syncHandler, remoteUrl, configured, local, unpushed, remote,
                   puts, dal, syncNowLog>>

\* allDocs has answered: nothing to delete, or on to bulkDocs.
DasAllDocs ==
    /\ das.pc = "allDocs"
    /\ das' = IF DocsToDelete = {}
              THEN [das EXCEPT !.pc = "done", !.outcome = "resolved"]
              ELSE [das EXCEPT !.pc = "bulkDocs", !.docs = DocsToDelete,
                               !.n = Cardinality(DocsToDelete)]
    /\ UNCHANGED <<syncs, syncHandler, remoteUrl, configured, local, unpushed, remote,
                   puts, dal, syncNowLog>>

\* bulkDocs has answered and the promise executor runs: it arms the timer and
\* registers the handlers on this.syncHandler, which throws when that is null.
DasBulkDocs ==
    /\ das.pc = "bulkDocs"
    /\ BulkDelete(das.docs, "deleteAllAndSync")
    /\ das' = IF syncHandler = 0
              THEN [das EXCEPT !.pc = "done", !.timer = "armed",
                               !.deleted = Deletable(das.docs),
                               !.outcome = "rejected: TypeError"]
              ELSE [das EXCEPT !.pc = "waiting", !.timer = "armed",
                               !.deleted = Deletable(das.docs),
                               !.listeners = syncHandler]
    /\ UNCHANGED <<syncs, syncHandler, remoteUrl, configured, remote, puts, dal, syncNowLog>>

\* The 30 second timer fires.
DasTimeout ==
    /\ das.pc # "idle" /\ das.timer = "armed"
    /\ das' = IF ~das.resolved
              THEN [das EXCEPT !.timer = "fired", !.resolved = TRUE, !.pc = "done",
                               !.outcome = IF @ = "pending" THEN "rejected: timeout" ELSE @]
              ELSE [das EXCEPT !.timer = "fired"]
    /\ UNCHANGED <<syncs, syncHandler, remoteUrl, configured, local, unpushed, remote,
                   puts, dal, syncNowLog>>

\* deleteAllLocal up to `await this.db.allDocs`: disconnectRemote.
DalStart ==
    /\ dal.pc \in {"idle", "done"}
    /\ SetStoreSync(disconnectRemote(StoreSync))
    /\ configured' = FALSE
    /\ dal' = [pc |-> "allDocs", docs |-> {}, deleted |-> {}, atReturn |-> Null]
    /\ UNCHANGED <<local, unpushed, remote, puts, das, syncNowLog>>

\* What the caller of deleteAllLocal finds when the call returns.
AtReturn(loc) ==
    [syncHandler |-> syncHandler, remoteUrl |-> remoteUrl,
     remaining |-> {id \in SyncDocs : ~IsDesign(id) /\ loc[id].ver > 0 /\ ~loc[id].deleted}]

DalAllDocs ==
    /\ dal.pc = "allDocs"
    /\ dal' = IF DocsToDelete = {}
              THEN [dal EXCEPT !.pc = "done", !.atReturn = AtReturn(local)]
              ELSE [dal EXCEPT !.pc = "bulkDocs", !.docs = DocsToDelete]
    /\ UNCHANGED <<syncs, syncHandler, remoteUrl, configured, local, unpushed, remote,
                   puts, das, syncNowLog>>

DalBulkDocs ==
    /\ dal.pc = "bulkDocs"
    /\ BulkDelete(dal.docs, "deleteAllLocal")
    /\ dal' = [dal EXCEPT !.pc = "done", !.deleted = Deletable(dal.docs),
                          !.atReturn = AtReturn(local')]
    /\ UNCHANGED <<syncs, syncHandler, remoteUrl, configured, remote, puts, das, syncNowLog>>

SyncFrame ==
    StoreVarsUnchanged /\ UNCHANGED <<helperVars, cipherVars, conflictVars, remoteVars, codec,
                                     docVars, subscr, putCalls>>

InitSync == InitCommon /\ CodecIdle /\ SubsIdle /\ StoreHelper /\ scope = {} /\ budget = 0

NextSync ==
    \/ \E id \in SyncDocs : SyncPut(id) /\ SyncFrame
    \/ connectRemote /\ SyncFrame
    \/ DisconnectRemote /\ SyncFrame
    \/ syncNow /\ SyncFrame
    \/ \E i \in 1..Len(syncs) : SyncComplete(i) /\ SyncFrame
    \/ \E i \in 1..Len(syncs), k \in 1..Len(unpushed) : Push(i, k) /\ SyncFrame
    \/ \E i \in 1..Len(syncs) : SyncError(i) /\ SyncFrame
    \/ DasStart /\ SyncFrame
    \/ DasAllDocs /\ SyncFrame
    \/ DasBulkDocs /\ SyncFrame
    \/ DasTimeout /\ SyncFrame
    \/ DalStart /\ SyncFrame
    \/ DalAllDocs /\ SyncFrame
    \/ DalBulkDocs /\ SyncFrame

SpecSync == InitSync /\ [][NextSync]_vars

----------------------------------------------------------------------------
(* Remote connection of the Fireproof store: encryptedStore.ts:168-205.    *)
(* The connector returns a connection with a ready promise and a           *)
(* disconnect function; a connection whose ready promise rejects is taken  *)
(* to be dead.                                                             *)

\* disconnectRemote of the Fireproof store on st = [conns, connection].
fpDisconnectRemote(st) ==
    [conns |-> IF st.connection = 0 THEN st.conns
               ELSE [st.conns EXCEPT ![st.connection].live = FALSE],
     connection |-> 0]

\* connectRemote up to `await this.connection.ready`.
FPConnect ==
    /\ Len(conns) < MaxConnects
    /\ LET st == fpDisconnectRemote([conns |-> conns, connection |-> connection])
       IN  /\ conns' = Append(st.conns, [live |-> TRUE, ready |-> "pending"])
           /\ connection' = Len(st.conns) + 1

\* The ready promise of connection i settles and the connectRemote call that
\* awaits it goes on: it returns, or its catch clears this.connection.
FPReady(i, ok) ==
    /\ conns[i].ready = "pending"
    /\ IF ok
       THEN /\ conns' = [conns EXCEPT ![i].ready = "resolved"]
            /\ UNCHANGED connection
       ELSE /\ conns' = [conns EXCEPT ![i].ready = "rejected", ![i].live = FALSE]
            /\ connection' = 0

FPDisconnect ==
    /\ LET st == fpDisconnectRemote([conns |-> conns, connection |-> connection])
       IN  /\ conns' = st.conns
           /\ connection' = st.connection
    /\ disconnects < MaxConnects
    /\ disconnects' = disconnects + 1

RemoteFrame ==
    StoreVarsUnchanged /\ UNCHANGED <<helperVars, cipherVars, conflictVars, syncVars, codec,
                                     docVars, subscr, putCalls>>

InitRemote == InitCommon /\ CodecIdle /\ SubsIdle /\ StoreHelper /\ scope = {} /\ budget = 0

NextRemote ==
    \/ FPConnect /\ UNCHANGED disconnects /\ RemoteFrame
    \/ \E i \in 1..Len(conns), ok \in BOOLEAN :
          FPReady(i, ok) /\ UNCHANGED disconnects /\ RemoteFrame
    \/ FPDisconnect /\ RemoteFrame

SpecRemote == InitRemote /\ [][NextRemote]_vars

----------------------------------------------------------------------------
(* Identity codec: the storage key `${table}_${id}` (part_000:173) and     *)
(* parseFullId (part_000:691-695, encryptedStore.ts:352-361), applied to   *)
(* every table and id of the bounded alphabets and to raw keys.            *)

EncodePair(table, id) ==
    /\ codec.pc = "pair" /\ codec.table = table /\ codec.id = id
    /\ codec' = [codec EXCEPT !.pc = "encoded", !.key = fullIdOf(table, id)]

\* parseFullId on the key in hand; Null stands for the failure (null in the
\* PouchDB store, a thrown Error in the Fireproof store).
Decode ==
    /\ codec.pc \in {"encoded", "raw"}
    /\ codec' = [codec EXCEPT !.pc = "decoded", !.out = parseFullId(codec.key)]

CodecFrame ==
    /\ StoreVarsUnchanged
    /\ UNCHANGED <<helperVars, cipherVars, conflictVars, syncVars, remoteVars, docVars, subscr, putCalls>>

InitCodec ==
    /\ InitCommon /\ SubsIdle /\ StoreHelper /\ scope = {} /\ budget = 0
    /\ codec \in CodecInputs

NextCodec ==
    \/ \E table \in CodecTables, id \in CodecIds : EncodePair(table, id) /\ CodecFrame
    \/ Decode /\ CodecFrame

SpecCodec == InitCodec /\ [][NextCodec]_vars

----------------------------------------------------------------------------
(* put / get / delete of the PouchDB store (part_000:166-229) on documents *)
(* with named fields.  A document is a function from field names to        *)
(* values; field names are strings of characters so that startsWith("_")   *)
(* is computed.  The database keeps, per storage key, the current revision *)
(* number, the deleted flag and the stored document; only local writes are *)
(* made, so every document has a single revision chain.                    *)

F_id == <<"_", "i", "d">>
F_rev == <<"_", "r", "e", "v">>
F_d == <<"d">>
F_deleted == <<"_", "d", "e", "l", "e", "t", "e", "d">>
F_table == <<"_", "t", "a", "b", "l", "e">>
F_n == <<"n">>
F_s == <<"_", "s">>

\* Results are wrapped in records: a found document, the 404 of db.get, the
\* document or null that get returns, the latest fields or the deletion.
NotFound == [found |-> FALSE, status |-> 404]
Found(doc) == [found |-> TRUE, doc |-> doc]
Returned(doc) == [null |-> FALSE, doc |-> doc]
Deleted == [deleted |-> TRUE]
Fields(fields) == [deleted |-> FALSE, fields |-> fields]

DocTables == {<<"a">>, <<"a", "_", "b">>}
DocIds == {<<"x">>, <<"b", "_", "x">>}
\* What the application passes to put besides _id.
DocFields ==
    {F_n :> v : v \in {1, 2}}
    \cup {(F_n :> 1) @@ (F_s :> 7) @@ (F_table :> <<"z">>) @@ (F_rev :> 9)}

startsWith(key, c) == key # <<>> /\ key[1] = c

\* f without the fields named in names.
Without(f, names) == [k \in DOMAIN f \ names |-> f[k]]

\* encryptDoc with the loop copying every field of the document.
encryptDoc_KeepAll(doc, fullId) ==
    (F_id :> fullId) @@ (F_d :> [kind |-> "enc", key |-> Passphrase, pt |-> doc])

\* encryptDoc: the fields whose name does not start with "_" are serialised
\* and encrypted into d; the record is {_id, d}.
encryptDoc(doc, fullId) ==
    LET plain == [key \in {k \in DOMAIN doc : ~startsWith(k, Sep)} |-> doc[key]]
    IN  (F_id :> fullId) @@ (F_d :> [kind |-> "enc", key |-> Passphrase, pt |-> plain])

\* decryptDoc on a stored record with named fields: the thrown Error is Null.
decryptFields(encryptedDoc) ==
    LET parsed == parseFullId(encryptedDoc[F_id])
        decrypted == decrypt(encryptedDoc[F_d])
    IN  IF parsed = Null \/ decrypted = Null THEN Null
        ELSE Returned(decrypted.pt @@ (F_id :> parsed.id) @@ (F_table :> parsed.type))

\* PouchDB db.get(key): the stored document, or 404 for a key never written
\* or deleted.
pdbGet(p, key) ==
    IF key \in DOMAIN p /\ ~p[key].deleted THEN Found(p[key].doc) ELSE NotFound

\* PouchDB db.put(rec): a new revision when rec names the current revision of
\* a live document or the key holds no live document; else a 409 conflict.
pdbPut(p, rec) ==
    LET key == rec[F_id]
        live == key \in DOMAIN p /\ ~p[key].deleted
        rev == IF key \in DOMAIN p THEN p[key].rev + 1 ELSE 1
    IN  IF live /\ ~(F_rev \in DOMAIN rec /\ rec[F_rev] = p[key].rev)
        THEN [ok |-> FALSE, p |-> p]
        ELSE [ok |-> TRUE,
              p |-> (key :> [rev |-> rev, deleted |-> FALSE,
                             doc |-> (F_rev :> rev) @@ rec]) @@ p]

\* PouchDB db.remove(doc): a tombstone on top of the revision doc names.
pdbRemove(p, doc) ==
    LET key == doc[F_id]
        rev == p[key].rev + 1
    IN  (key :> [rev |-> rev, deleted |-> TRUE,
                 doc |-> (F_id :> key) @@ (F_rev :> rev) @@ (F_deleted :> TRUE)]) @@ p

\* put without `encryptedDoc._rev = existing._rev`.
PreserveRev_Never(encryptedDoc, existing) == encryptedDoc

\* put, lines 176-182: the revision of the existing document is carried over.
PreserveRev(encryptedDoc, existing) ==
    IF ~existing.found THEN encryptedDoc
    ELSE (F_rev :> existing.doc[F_rev]) @@ encryptedDoc

\* put(table, doc) for a document that carries an _id.
put(table, id, fields) ==
    LET doc == (F_id :> id) @@ fields
        fullId == fullIdOf(table, id)
        encryptedDoc == PreserveRev(encryptDoc(doc, fullId), pdbGet(pdocs, fullId))
        r == pdbPut(pdocs, encryptedDoc)
    IN  /\ ops < MaxOps
        /\ ops' = ops + 1
        /\ pdocs' = r.p
        /\ written' = written \cup {encryptedDoc}
        /\ tablesUsed' = tablesUsed \cup {table}
        /\ latest' = IF r.ok THEN (<<table, id>> :> Fields(fields)) @@ latest
                     ELSE latest
        /\ lastOp' = [op |-> "put", table |-> table, id |-> id, fields |-> fields,
                      result |-> IF r.ok THEN [ok |-> TRUE, doc |-> (F_table :> table) @@ doc]
                                 ELSE [ok |-> FALSE, status |-> 409]]

\* get(table, id) with no onConflict case: the decrypted document, or null.
\* raw is history: what db.get of the storage key gives after the call.
get(table, id) ==
    LET fullId == fullIdOf(table, id)
        encryptedDoc == pdbGet(pdocs, fullId)
        doc == IF ~encryptedDoc.found THEN Null ELSE decryptFields(encryptedDoc.doc)
    IN  /\ ops < MaxOps
        /\ ops' = ops + 1
        /\ lastOp' = [op |-> "get", table |-> table, id |-> id, result |-> doc,
                      raw |-> encryptedDoc]
        /\ tablesUsed' = tablesUsed \cup {table}
        /\ UNCHANGED <<pdocs, latest, written>>

\* delete(table, id): db.get and db.remove; a missing document is logged
\* and the call returns.
delete(table, id) ==
    LET fullId == fullIdOf(table, id)
        doc == pdbGet(pdocs, fullId)
    IN  /\ ops < MaxOps
        /\ ops' = ops + 1
        /\ pdocs' = IF ~doc.found THEN pdocs ELSE pdbRemove(pdocs, doc.doc)
        /\ latest' = IF <<table, id>> \in DOMAIN latest
                     THEN [latest EXCEPT ![<<table, id>>] = Deleted] ELSE latest
        /\ lastOp' = [op |-> "delete", table |-> table, id |-> id,
                      warned |-> ~doc.found]
        /\ tablesUsed' = tablesUsed \cup {table}
        /\ UNCHANGED written

DocFrame ==
    /\ StoreVarsUnchanged
    /\ UNCHANGED <<helperVars, cipherVars, conflictVars, syncVars, remoteVars, codec,
                   subscr, putCalls>>

InitDocs == InitCommon /\ CodecIdle /\ SubsIdle /\ StoreHelper /\ scope = {} /\ budget = 0

NextDocs ==
    \/ \E table \in DocTables, id \in DocIds, fields \in DocFields :
          put(table, id, fields) /\ DocFrame
    \/ \E table \in DocTables, id \in DocIds : get(table, id) /\ DocFrame
    \/ \E table \in DocTables, id \in DocIds : delete(table, id) /\ DocFrame

SpecDocs == InitDocs /\ [][NextDocs]_vars

----------------------------------------------------------------------------
(* Change-feed subscriptions over repeated loadAll and reconnect calls:     *)
(* part_000:158-163, 540-567 and encryptedStore.ts:110-118.  subscr holds   *)
(* the feeds the store has opened (live or cancelled), the store's          *)
(* reference to one of them and, per committed change, the number of        *)
(* "change" handlers the feeds invoked for it.                              *)

LiveSubs(s) == {i \in 1..Len(s.subs) : s.subs[i]}

\* setupSubscription of the PouchDB store: a new live feed, referenced by
\* changesHandler.
setupSubscription(s) ==
    [s EXCEPT !.subs = Append(@, TRUE), !.changesHandler = Len(s.subs) + 1]

\* The end of loadAll of the Fireproof store: subscribe only once.
fpSubscribe(s) ==
    IF ~s.isSubscribed
    THEN [s EXCEPT !.subs = Append(@, TRUE), !.isSubscribed = TRUE]
    ELSE s

\* loadAll reaches its end: the listener calls are made and the store
\* subscribes.
SubLoadAll ==
    /\ subscr.calls < MaxSubCalls
    /\ subscr' = [(IF subscr.gen = "pouchdb" THEN setupSubscription(subscr)
                   ELSE fpSubscribe(subscr))
                  EXCEPT !.calls = @ + 1]

\* reconnect of the PouchDB store.
reconnect ==
    /\ subscr.gen = "pouchdb"
    /\ subscr.calls < MaxSubCalls
    /\ LET cancelled == IF subscr.changesHandler # 0
                        THEN [subscr EXCEPT !.subs[subscr.changesHandler] = FALSE,
                                            !.changesHandler = 0]
                        ELSE subscr
       IN  subscr' = [setupSubscription(cancelled) EXCEPT !.calls = @ + 1]

\* A change is committed: every live feed invokes its "change" handler,
\* which hands the change to handleChange.
SubChange ==
    /\ Len(subscr.handled) < MaxSubChanges
    /\ subscr' = [subscr EXCEPT !.handled = Append(@, Cardinality(LiveSubs(subscr)))]

SubFrame ==
    /\ StoreVarsUnchanged
    /\ UNCHANGED <<helperVars, cipherVars, conflictVars, syncVars, remoteVars, codec,
                   docVars, putCalls>>

InitSubs ==
    /\ InitCommon /\ CodecIdle /\ StoreHelper /\ scope = {} /\ budget = 0
    /\ subscr \in {SubsOf("pouchdb"), SubsOf("fireproof")}

NextSubs ==
    \/ SubLoadAll /\ SubFrame
    \/ reconnect /\ SubFrame
    \/ SubChange /\ SubFrame

SpecSubs == InitSubs /\ [][NextSubs]_vars

----------------------------------------------------------------------------
(* Overlapping put calls of the PouchDB store: part_000:166-187.            *)
(* put reads the current revision with db.get and writes with db.put; both *)
(* are awaited, so other put calls and replication run in between.         *)

PutFrame ==
    StoreVarsUnchanged
    /\ UNCHANGED <<helperVars, cipherVars, conflictOp, settled, syncVars, remoteVars,
                   codec, docVars, subscr>>

\* What the i-th put call stores, and the hash of the revision it creates.
PutData(i) == [kind |-> "enc", key |-> Passphrase, pt |-> 3 + i]
PutHash(i) == LocalHash * i

\* What replication brings in this section.
RepData == [kind |-> "enc", key |-> Passphrase, pt |-> 1]

LiveLeaf(t, rev) == \E l \in Live(t) : l.rev = rev

\* Variant of db.put without the revision check.
putAccepted_Always(t, rev) == TRUE

\* db.put(doc): without _rev the document must not exist; with _rev that
\* revision must be a live leaf; anything else is the 409 rejection.
putAccepted(t, rev) ==
    IF rev = Null THEN Live(t) = {} ELSE LiveLeaf(t, rev)

\* put(table, doc) up to `await this.db.get(fullId)`.
PutCall ==
    /\ Len(putCalls) < MaxPutCalls
    /\ putCalls' = Append(putCalls, [pc |-> "get", existing |-> Null, current |-> Null,
                                     onLeaf |-> FALSE, rev |-> Null])
    /\ UNCHANGED revTree

\* db.get has answered: the revision is carried over, or the 404 is swallowed.
PutGet(i) ==
    /\ putCalls[i].pc = "get"
    /\ putCalls' = [putCalls EXCEPT ![i].pc = "put",
                                    ![i].existing = IF dbGet(revTree) = Null THEN Null
                                                    ELSE dbGet(revTree)._rev]
    /\ UNCHANGED revTree

\* `await this.db.put(encryptedDoc)`: a child of the revision read, or the
\* rejection, which put passes on.
PutWrite(i) ==
    /\ putCalls[i].pc = "put"
    /\ LET existing == putCalls[i].existing
           rev == [gen |-> IF existing = Null THEN 1 ELSE existing.gen + 1,
                   hash |-> PutHash(i)]
           child == [rev |-> rev, d |-> PutData(i), deleted |-> FALSE, leaf |-> TRUE]
           current == IF dbGet(revTree) = Null THEN Null ELSE dbGet(revTree)._rev
           onLeaf == IF existing = Null THEN Live(revTree) = {}
                     ELSE LiveLeaf(revTree, existing)
       IN  IF putAccepted(revTree, existing)
           THEN /\ revTree' = IF existing = Null THEN revTree \cup {child}
                              ELSE Extend(revTree, existing, child)
                /\ putCalls' = [putCalls EXCEPT ![i].pc = "returned",
                                                ![i].current = current,
                                                ![i].onLeaf = onLeaf,
                                                ![i].rev = rev]
           ELSE /\ putCalls' = [putCalls EXCEPT ![i].pc = "rejected",
                                                ![i].current = current,
                                                ![i].onLeaf = onLeaf]
                /\ UNCHANGED revTree

\* Replication brings a revision written elsewhere on top of a leaf of this
\* database: the leaf becomes an inner revision.
ReplicateOnto(p, h, d) ==
    /\ p \in Live(revTree)
    /\ [gen |-> p.rev.gen + 1, hash |-> h] \notin Revs(revTree)
    /\ revTree' = Extend(revTree, p.rev,
                         [rev |-> [gen |-> p.rev.gen + 1, hash |-> h], d |-> d,
                          deleted |-> FALSE, leaf |-> TRUE])
    /\ UNCHANGED <<conflictOp, settled, putCalls>>

\* Replication stops after MaxPutReps revisions.
RepBudget == Cardinality({l \in revTree : l.rev.hash \in Hashes}) < MaxPutReps

InitPut == InitCommon /\ CodecIdle /\ SubsIdle /\ StoreHelper /\ scope = {} /\ budget = 0

NextPut ==
    \/ PutCall /\ PutFrame
    \/ \E i \in 1..Len(putCalls) : PutGet(i) /\ PutFrame
    \/ \E i \in 1..Len(putCalls) : PutWrite(i) /\ PutFrame
    \/ \E g \in RepGens, h \in Hashes :
          /\ RepBudget
          /\ Replicate([gen |-> g, hash |-> h], RepData)
          /\ UNCHANGED putCalls
          /\ StoreVarsUnchanged
          /\ UNCHANGED <<helperVars, cipherVars, syncVars, remoteVars, codec, docVars,
                         subscr>>
    \/ \E p \in revTree, h \in Hashes :
          RepBudget /\ ReplicateOnto(p, h, RepData) /\ PutFrame

SpecPut == InitPut /\ [][NextPut]_vars

----------------------------------------------------------------------------
(* Properties of the PouchDB store *)

HandledChanges == [k \in 1..Len(pHandled) |-> pHandled[k].change]

Rejections == Cardinality({k \in 1..Len(pHandled) : pHandled[k].rejected})

\* C6: a failure while handling one queued change does not abort the chain:
\* the chain stays fulfilled, every rejection is logged, and the changes
\* handled so far, the one in progress and the ones still queued are exactly
\* the changes that arrived, in arrival order.
C6_ChainSurvivesFailure ==
    /\ processingChain = "fulfilled"
    /\ pConsole = Rejections
    /\ HandledChanges \o (IF pRun = Null THEN <<>> ELSE <<pRun>>) \o chainQ
         = Flatten(arrived)

C6_Witness ==
    /\ Len(pHandled) >= 2
    /\ pHandled[1].rejected
    /\ pConsole >= 1
    /\ \E c \in 1..Len(calls) :
          /\ calls[c].src = "handleChange" /\ ~calls[c].threw
          /\ \E b \in 1..(c - 1) : calls[b].src = "handleChange" /\ calls[b].threw

\* One entry per document of every onChange / onDelete invocation.
PouchNotified ==
    Flatten([c \in 1..Len(calls) |->
               IF calls[c].type \in {"onChange", "onDelete"}
               THEN [k \in 1..Len(calls[c].events) |->
                       [type |-> calls[c].type,
                        table |-> calls[c].events[k]._table,
                        id |-> calls[c].events[k]._id]]
               ELSE <<>>])

\* C7 (as claimed): a deletion is notified for an identity only if a document
\* was notified for it before and no deletion since; a tombstone for an
\* identity the listener was never given is ignored.
C7_DeleteOnlyAfterCreate ==
    LET n == PouchNotified
    IN  \A i \in 1..Len(n) :
          n[i].type = "onDelete" =>
            \E j \in 1..(i - 1) :
               /\ n[j].type = "onChange"
               /\ n[j].table = n[i].table /\ n[j].id = n[i].id
               /\ \A m \in (j + 1)..(i - 1) :
                     ~(n[m].type = "onDelete" /\ n[m].table = n[i].table
                       /\ n[m].id = n[i].id)

----------------------------------------------------------------------------
(* Properties of the Fireproof store *)

WellFormedKeys == {k \in Keys : parseFullId(k) # Null}

\* The four-row classification table of the specification, replayed over a
\* history of observations with identities taken as full (table, id) keys.
RECURSIVE TableClasses(_, _)
TableClasses(obs, known) ==
    IF obs = <<>> THEN <<>>
    ELSE LET e == obs[1]
         IN  IF e.ev = "scan"
             THEN <<"seed">> \o TableClasses(Tail(obs), known \cup {e.key})
             ELSE IF e.d = NoD
             THEN IF e.key \in known
                  THEN <<"deletion">> \o TableClasses(Tail(obs), known \ {e.key})
                  ELSE <<"ignored">> \o TableClasses(Tail(obs), known)
             ELSE IF decrypt(e.d) = Null
             THEN <<"undecryptable">> \o TableClasses(Tail(obs), known)
             ELSE IF e.key \in known
                  THEN <<"update">> \o TableClasses(Tail(obs), known)
                  ELSE <<"creation">> \o TableClasses(Tail(obs), known \cup {e.key})

RECURSIVE TableKnown(_, _)
TableKnown(obs, known) ==
    IF obs = <<>> THEN known
    ELSE LET e == obs[1]
         IN  IF e.ev = "scan" THEN TableKnown(Tail(obs), known \cup {e.key})
             ELSE IF e.d = NoD THEN TableKnown(Tail(obs), known \ {e.key})
             ELSE IF decrypt(e.d) = Null THEN TableKnown(Tail(obs), known)
             ELSE TableKnown(Tail(obs), known \cup {e.key})

ObsClasses == [k \in 1..Len(fpObs) |-> fpObs[k].class]
ObsData == [k \in 1..Len(fpObs) |-> fpObs[k].d]

Quiescent == loadPc = "done" /\ feed = <<>> /\ fpTasks = <<>>

\* One entry per document per listener invocation, in invocation order.
GroupDocs(call) ==
    Flatten([g \in 1..Len(call.events) |->
               [k \in 1..Len(call.events[g].docs) |->
                  [type |-> call.type, table |-> call.events[g].table,
                   id |-> call.events[g].docs[k]._id]]])

Notified(src) ==
    Flatten([c \in 1..Len(calls) |->
               IF calls[c].src = src THEN GroupDocs(calls[c]) ELSE <<>>])

NotifiedTypes(src) == [k \in 1..Len(Notified(src)) |-> Notified(src)[k].type]

TypeOfClass(class) ==
    CASE class = "creation" -> "docsAdded"
      [] class = "update"   -> "docsChanged"
      [] class = "deletion" -> "docsDeleted"
      [] OTHER -> "none"

RECURSIVE ClassifiedTypes(_)
ClassifiedTypes(obs) ==
    IF obs = <<>> THEN <<>>
    ELSE (IF TypeOfClass(obs[1].class) = "none" THEN <<>>
          ELSE <<TypeOfClass(obs[1].class)>>) \o ClassifiedTypes(Tail(obs))

Decides(e, id) ==
    /\ e.id = id
    /\ (e.ev = "scan" \/ e.d = NoD \/ decrypt(e.d) # Null)

C3_OnePipelineAtATime == Len(fpTasks) <= 1

\* C4 (as claimed): changes [A-create, A-update, A-delete] delivered in that
\* order reach the listener as added, changed, deleted.
C4_NotifiedInArrivalOrder ==
    (/\ Quiescent
     /\ snap = <<>>
     /\ Flatten(arrived) = <<[_id |-> KeyAX, d |-> Good],
                             [_id |-> KeyAX, d |-> Good],
                             [_id |-> KeyAX, d |-> NoD]>>)
    => NotifiedTypes("handleChange") = <<"docsAdded", "docsChanged", "docsDeleted">>

\* C5 (as claimed): the changes of one feed delivery are notified in the
\* order they were classified.
C5_BatchKeepsClassificationOrder ==
    (Len(arrived) = 1 /\ fpTasks = <<>>)
    => NotifiedTypes("handleChange") = ClassifiedTypes(fpObs)

\* C8 (as claimed): identities are scoped by table: a record is classified as
\* an update, and a tombstone as a deletion, only when a record under the
\* same full key (same table and id) was observed before.
C8_ClassifiedPerTable ==
    \A i \in 1..Len(fpObs) :
      fpObs[i].class \in {"update", "deletion"} =>
        \E j \in 1..(i - 1) : fpObs[j].key = fpObs[i].key /\ fpObs[j].d # NoD

JoinKey(table, id) == table \o <<Sep>> \o id

\* C9 (as claimed): loadAll delivers a success batch with exactly the rows
\* that decrypt and a failure batch with exactly the rows that do not.
C9_LoadBatchIsolation ==
    loadPc = "done" =>
      LET rows == {snap[k] : k \in 1..Len(snap)}
          valid == {r._id : r \in {q \in rows : q._id \in WellFormedKeys
                                                  /\ decrypt(q.d) # Null}}
          invalid == {r._id : r \in {q \in rows : q._id \in WellFormedKeys
                                                    /\ decrypt(q.d) = Null}}
          loaded == Notified("loadAll")
      IN  /\ {JoinKey(loaded[k].table, loaded[k].id) : k \in 1..Len(loaded)} = valid
          /\ Len(loaded) = Cardinality(valid)
          /\ invalid # {} =>
               \E c \in 1..Len(calls) :
                  /\ calls[c].type = "decryptionError"
                  /\ {calls[c].events[k].docId : k \in 1..Len(calls[c].events)} = invalid

\* C10 (as claimed): every record that failed to decrypt, at load or live, has
\* been reported to the listener once its processing ended.
C10_FailureReported ==
    Quiescent =>
      \A i \in 1..Len(fpObs) :
        (fpObs[i].d # NoD /\ decrypt(fpObs[i].d) = Null) =>
          \E c \in 1..Len(calls) :
             /\ calls[c].type = "decryptionError"
             /\ \E k \in 1..Len(calls[c].events) :
                   calls[c].events[k].docId = fpObs[i].key

----------------------------------------------------------------------------
(* Malformed keys and empty payloads *)

\* C11 (as claimed): a record or change whose key has no separator is never
\* reported through the error channel: every entry of every onError batch
\* names a key that decodes to a table and an id.
C11_MalformedNotReported ==
    \A c \in 1..Len(calls) :
      calls[c].type = "onError" =>
        \A k \in 1..Len(calls[c].events) :
           calls[c].events[k].docId \in WellFormedKeys

\* C12 (as claimed): every listener invocation carries at least one table
\* group and every group carries at least one document.
C12_NoEmptyPayload ==
    \A c \in 1..Len(calls) :
      /\ calls[c].events # <<>>
      /\ \A g \in 1..Len(calls[c].events) : calls[c].events[g].docs # <<>>

----------------------------------------------------------------------------
(* Properties of key derivation *)

\* C13 (as claimed): key derivation runs at most once per helper instance, and
\* all callers that requested the key are given the same key promise.
C13_SingleDerivation ==
    /\ derivations <= 1
    /\ \A c1, c2 \in 1..Len(callers) :
          (callers[c1].pc = "awaitKey" /\ callers[c2].pc = "awaitKey")
            => callers[c1].p = callers[c2].p

\* C14 (as claimed): when a crypto primitive fails during key derivation, the
\* operation that requested the key is rejected, and no derivation is
\* started again afterwards.
C14_FailurePropagatesNoRetry ==
    /\ \A c \in 1..Len(callers) :
          KeyResult(c) = "rejected"
            => OpOutcome(callers[c].op, KeyResult(c)) = "rejects"
    /\ ~retried

----------------------------------------------------------------------------
(* Properties of encrypt / decrypt *)

\* C15 (as claimed): decrypt raises a DecryptionError for every input it
\* cannot decrypt: a damaged string (no separator, non-hex characters, empty,
\* tampered IV or ciphertext) or a string encrypted under another passphrase.
C15_AlwaysDecryptionError ==
    (out # Null /\ (corrupted # "no" \/ encPass # decPass))
      => out.kind = "DecryptionError"

\* C17 (as claimed): decrypt(encrypt(m)) under the same helper returns exactly
\* m, for every string m, also after repeated cycles.
C17_RoundTrip ==
    (out # Null /\ corrupted = "no" /\ encPass = decPass)
      => (out.kind = "ok" /\ out.text = sent /\ out.text = orig)

\* A string without an unpaired surrogate.
RECURSIVE WellFormed(_)
WellFormed(str) ==
    IF str = <<>> THEN TRUE
    ELSE IF IsHighSurrogate(str[1])
    THEN Len(str) >= 2 /\ IsLowSurrogate(str[2]) /\ WellFormed(SubSeq(str, 3, Len(str)))
    ELSE ~IsLowSurrogate(str[1]) /\ WellFormed(Tail(str))

StartsWithBOM(str) == str # <<>> /\ str[1] = 65279

\* String.prototype.toWellFormed: unpaired surrogates become U+FFFD.
RECURSIVE ToWellFormed(_)
ToWellFormed(str) ==
    IF str = <<>> THEN <<>>
    ELSE IF IsHighSurrogate(str[1]) /\ Len(str) >= 2 /\ IsLowSurrogate(str[2])
    THEN <<str[1], str[2]>> \o ToWellFormed(SubSeq(str, 3, Len(str)))
    ELSE IF IsHighSurrogate(str[1]) \/ IsLowSurrogate(str[1])
    THEN <<65533>> \o ToWellFormed(Tail(str))
    ELSE <<str[1]>> \o ToWellFormed(Tail(str))

\* C17 (amended): decrypt(encrypt(m)) under the same helper succeeds for every
\* string m and returns m with unpaired surrogates replaced by U+FFFD and one
\* leading U+FEFF removed; it returns exactly m, also after repeated cycles,
\* when m has no unpaired surrogate and does not start with U+FEFF.
C17_RoundTripOfText ==
    (out # Null /\ corrupted = "no" /\ encPass = decPass)
      => /\ out.kind = "ok"
         /\ out.text = (IF StartsWithBOM(sent) THEN Tail(ToWellFormed(sent))
                        ELSE ToWellFormed(sent))
         /\ (WellFormed(sent) /\ ~StartsWithBOM(sent)) => out.text = sent
         /\ (WellFormed(orig) /\ ~StartsWithBOM(orig)) => out.text = orig

C17_Witness ==
    /\ cycles = MaxCycles
    /\ corrupted = "no" /\ encPass = decPass
    /\ out # Null /\ out.kind = "ok"
    /\ orig = <<55356, 57101>>
    /\ out.text = orig

----------------------------------------------------------------------------
(* Wrong-key isolation *)

\* The wire string of a stored ciphertext: its plaintext encrypted by a helper
\* constructed with the passphrase it was written under.
WireOf(d, iv) ==
    EncryptionHelper_encrypt(<<64 + d.pt>>, DeriveKey(d.key, passphraseMode), iv)

WrongKey(d) == d # NoD /\ d.key # Passphrase

RightKey(d) == d # NoD /\ d.key = Passphrase

CallsOf(src, type, pred(_)) ==
    {c \in 1..Len(calls) :
        /\ calls[c].src = src /\ calls[c].type = type
        /\ \E k \in 1..Len(calls[c].events) : pred(calls[c].events[k])}

HandledOf(key, pred(_)) ==
    {k \in 1..Len(pHandled) : pHandled[k].change._id = key /\ pred(pHandled[k].change.d)}

LoadOnChangeThrew ==
    \E c \in 1..Len(calls) :
       calls[c].src = "loadAll" /\ calls[c].type = "onChange" /\ calls[c].threw

----------------------------------------------------------------------------
(* Conflict inspection and resolution *)

LiveLeaves(t) == {l \in t : l.leaf /\ ~l.deleted}

Current(t) ==
    CHOOSE w \in LiveLeaves(t) :
       \A l \in LiveLeaves(t) \ {w} :
          l.rev.gen < w.rev.gen \/ (l.rev.gen = w.rev.gen /\ l.rev.hash < w.rev.hash)

Range(seq) == {seq[k] : k \in 1..Len(seq)}

\* C18: when getConflictInfo inspects a document whose current revision
\* decrypts and that has N >= 1 conflicting revisions (and the error listener
\* returns), it returns the current revision decrypted as winner, the N
\* conflicting revisions, and one loser per conflicting revision that was
\* fetched and decrypted, in the order of the conflicting revisions; every
\* other conflicting revision is one entry of the batch given to onError,
\* under the id fullId@rev, and is not among the losers.
C18_InspectionReturnsLosers ==
    (/\ settled.name = "getConflictInfo"
     /\ ~settled.threw
     /\ Cardinality(LiveLeaves(settled.before)) >= 2
     /\ Current(settled.before).d.key = Passphrase)
    => LET t == settled.before
           conf == LiveLeaves(t) \ {Current(t)}
           LeafOf(rev) == CHOOSE l \in t : l.rev = rev
           Readable(rev) == rev \notin settled.fails /\ LeafOf(rev).d.key = Passphrase
           info == settled.result
           readable == SelectSeq(info.conflictRevs, Readable)
       IN  /\ info # Null
           /\ info.currentRev = Current(t).rev
           /\ info.winner = [_id |-> <<"x">>, _table |-> <<"a">>, pt |-> Current(t).d.pt]
           /\ Len(info.conflictRevs) = Cardinality(conf)
           /\ Range(info.conflictRevs) = {l.rev : l \in conf}
           /\ Len(info.losers) = Cardinality({l \in conf : Readable(l.rev)})
           /\ \A k \in 1..Len(info.losers) :
                 info.losers[k] = [_id |-> <<"x">>, _table |-> <<"a">>,
                                   pt |-> LeafOf(readable[k]).d.pt]
           /\ Len(settled.errors) = Cardinality({l \in conf : ~Readable(l.rev)})
           /\ {e.docId : e \in Range(settled.errors)}
                = {[id |-> FullId, rev |-> l.rev] : l \in {m \in conf : ~Readable(m.rev)}}

C18_Witness ==
    /\ settled.name = "getConflictInfo"
    /\ ~settled.threw
    /\ settled.result # Null
    /\ Len(settled.result.conflictRevs) = 3
    /\ Len(settled.result.losers) = 2
    /\ Len(settled.errors) = 1
    /\ settled.result.losers[2] # settled.result.losers[1]

\* C19: when resolveConflict completes on a document that had conflicting
\* revisions, and no revision arrived while it ran, inspecting the document
\* reports no conflict and reading it returns the chosen document's fields.
C19_ResolvedLeavesNoConflict ==
    (/\ settled.name = "resolveConflict"
     /\ settled.outcome = "resolved"
     /\ settled.hadConflicts
     /\ ~settled.disturbed)
    => /\ revTree = settled.after
       /\ ConflictInfoOf(revTree, {}, FALSE).result = Null
       /\ Cardinality(LiveLeaves(revTree)) = 1
       /\ DocOf(revTree) = [_id |-> <<"x">>, _table |-> <<"a">>, pt |-> settled.chosen]

\* C20: resolveConflict on a document that has no conflicting revision is
\* rejected and writes nothing: it never gets as far as its put, and the
\* revisions of the document are those it found.
C20_NoConflictRejects ==
    /\ conflictOp.name = "resolveConflict" => conflictOp.hadConflicts
    /\ (settled.name = "resolveConflict" /\ settled.outcome = "resolved")
          => settled.hadConflicts
    /\ (settled.name = "resolveConflict" /\ settled.outcome = "rejected"
          /\ settled.error = "No conflicts found")
          => /\ Cardinality(LiveLeaves(settled.before)) = 1
             /\ settled.after = settled.before
             /\ revTree = settled.before

C20_Witness ==
    /\ settled.name = "resolveConflict"
    /\ settled.outcome = "rejected"
    /\ settled.error = "No conflicts found"
    /\ Cardinality(LiveLeaves(revTree)) = 1
    /\ \E l \in revTree : l.deleted

\* C21: resolveConflict does not complete successfully when the removal of a
\* losing revision failed: every resolved call had all its removals succeed.
C21_RemovalFailurePropagates ==
    (settled.name = "resolveConflict" /\ settled.outcome = "resolved")
    => /\ settled.warned = 0
       /\ \A k \in 1..Len(settled.log) :
             settled.log[k].do = "remove" => settled.log[k].ok

Removals(log) == SelectSeq(log, LAMBDA e : e.do = "remove")

\* C22: the first database write of resolveConflict is the put of the chosen
\* document, as a child of the current revision; the removals come after it,
\* one attempt per conflicting revision reported at the start, in that order,
\* whether or not an earlier attempt failed; and unless a revision arrived
\* while the call ran, the written revision is the current one from the put
\* onwards and when the call completes, failed removals or not.
C22_WinnerFirstThenAllLosers ==
    /\ conflictOp.name = "resolveConflict" =>
         /\ conflictOp.log # <<>> => conflictOp.log[1].do = "put"
         /\ \A k \in 2..Len(conflictOp.log) :
               /\ conflictOp.log[k].do = "remove"
               /\ conflictOp.log[k].rev = conflictOp.reported[k - 1]
         /\ (conflictOp.pc = "remove" /\ ~conflictOp.disturbed) =>
               /\ Current(revTree).rev = conflictOp.log[1].rev
               /\ Current(revTree).d = [kind |-> "enc", key |-> Passphrase,
                                        pt |-> conflictOp.chosen]
    /\ (settled.name = "resolveConflict" /\ settled.outcome = "resolved") =>
         /\ Len(settled.log) = Len(settled.reported) + 1
         /\ settled.log[1].do = "put"
         /\ [k \in 1..Len(settled.reported) |-> settled.log[k + 1].rev]
               = settled.reported
         /\ \A k \in 2..Len(settled.log) : settled.log[k].do = "remove"
         /\ ~settled.disturbed =>
               /\ Current(revTree).rev = settled.log[1].rev
               /\ Current(revTree).d = [kind |-> "enc", key |-> Passphrase,
                                        pt |-> settled.chosen]

C22_Witness ==
    /\ settled.name = "resolveConflict" /\ settled.outcome = "resolved"
    /\ ~settled.disturbed
    /\ Len(settled.reported) >= 2
    /\ ~settled.log[2].ok
    /\ settled.log[3].ok
    /\ Cardinality(LiveLeaves(revTree)) = 2

----------------------------------------------------------------------------
(* Remote sync *)

\* C23: a deleteAllAndSync call that has settled was rejected for want of a
\* connection (before any write), resolved with nothing to delete or after
\* pushes of at least as many documents as it listed, was rejected with the
\* error the sync reported, or was rejected by its timer with the timeout
\* error; it settles in no other way.
C23_SettlesAsSpecified ==
    das.pc = "done" =>
       \/ das.outcome = "rejected: not connected" /\ das.deleted = {}
       \/ das.outcome = "resolved" /\ das.changeCount >= das.n
       \/ das.outcome = "rejected: sync error"
       \/ das.outcome = "rejected: timeout" /\ das.timer = "fired"

OwnDeletions(op, by) ==
    {[id |-> d.id, ver |-> d.ver + 1, deleted |-> TRUE, by |-> by] : d \in op.deleted}

\* C24: when deleteAllAndSync has resolved, every deletion it made has been
\* written to the remote.
C24_ResolvedAfterDeletionsPushed ==
    (das.pc = "done" /\ das.outcome = "resolved")
    => OwnDeletions(das, "deleteAllAndSync") \subseteq remote

\* C25: no deletion made by deleteAllLocal is ever written to the remote, and
\* when deleteAllLocal returns the store has no sync handle and no remote
\* URL and no non-design document is left in the local database.
C25_LocalDeletionsStayLocal ==
    /\ \A r \in remote : r.by # "deleteAllLocal"
    /\ dal.pc = "done" =>
          /\ dal.atReturn.syncHandler = 0
          /\ dal.atReturn.remoteUrl = Null
          /\ dal.atReturn.remaining = {}

\* C27: syncNow rejects exactly when no remote is configured (no connectRemote
\* yet, or a disconnectRemote or deleteAllLocal since the last one) and
\* starts a one-time sync exactly when one is.
C27_SyncNowNeedsRemote ==
    /\ syncNowLog.outcome = "rejected" => ~syncNowLog.configured
    /\ syncNowLog.outcome = "started" => syncNowLog.configured
    /\ configured <=> remoteUrl # Null

C27_Witness ==
    /\ syncNowLog.outcome = "rejected"
    /\ dal.pc = "done"
    /\ \E i \in 1..Len(syncs) : syncs[i].kind = "once"

\* C26: whatever connectRemote and disconnectRemote calls have been made,
\* overlapping or failed ones included, a connection that is live is the one
\* the store references, so at most one is live and disconnectRemote can
\* release it.
C26_OneLiveConnection ==
    \A i \in 1..Len(conns) : conns[i].live => connection = i

HasSep(s) == \E i \in 1..Len(s) : s[i] = Sep

\* C29: decoding the storage key of a table without underscore and any id
\* gives back exactly that table and that id; decoding a key without
\* underscore fails.
C29_CodecInverts ==
    codec.pc = "decoded" =>
        /\ (codec.from = "pair" /\ ~HasSep(codec.table)) =>
              codec.out = [type |-> codec.table, id |-> codec.id]
        /\ ~HasSep(codec.key) => codec.out = Null

\* An id that contains underscores came back whole.
C29_Witness ==
    /\ codec.pc = "decoded" /\ codec.from = "pair"
    /\ ~HasSep(codec.table) /\ codec.table # <<>>
    /\ HasSep(codec.id) /\ codec.id[Len(codec.id)] # Sep
    /\ codec.out # Null /\ codec.out.id = codec.id

\* What get(table, id) is to return for the fields last put under (table, id).
Expected(table, id, fields) ==
    Without(fields, {k \in DOMAIN fields : startsWith(k, Sep)})
    @@ (F_id :> id) @@ (F_table :> table)

\* The body of C28 for the call that returned last.
EndToEnd ==
    /\ lastOp.op = "put" =>
          /\ lastOp.result.ok
          /\ lastOp.result.doc = (F_table :> lastOp.table) @@ (F_id :> lastOp.id) @@ lastOp.fields
    /\ (lastOp.op = "get" /\ <<lastOp.table, lastOp.id>> \in DOMAIN latest) =>
          LET l == latest[<<lastOp.table, lastOp.id>>]
          IN  IF l.deleted
              THEN lastOp.result = Null /\ ~lastOp.raw.found
              ELSE /\ lastOp.result # Null
                   /\ lastOp.result.doc = Expected(lastOp.table, lastOp.id, l.fields)

\* C28 as stated: a get after put returns the fields of the latest put with
\* id and table, and after delete it returns null and the raw read of the
\* storage key is not-found, for any table name.
C28_EndToEnd == EndToEnd

\* C28 amended: the same, in a store whose table names contain no underscore.
C28_EndToEnd_NoUnderscoreTables ==
    (\A t \in tablesUsed : ~HasSep(t)) => EndToEnd

\* A get that returned the fields of a second put under an id containing an
\* underscore.
C28_Witness ==
    /\ lastOp.op = "get" /\ lastOp.result # Null
    /\ \A t \in tablesUsed : ~HasSep(t)
    /\ HasSep(lastOp.id)
    /\ pdocs[fullIdOf(lastOp.table, lastOp.id)].rev = 2
    /\ lastOp.result.doc[F_n] = 2

\* C30: every record handed to the database or held by it consists of _id,
\* an optional _rev and the ciphertext d, whose plaintext has no field
\* starting with an underscore (a tombstone is _id, _rev, _deleted); the
\* document a get returns has no underscore field but the _id and _table of
\* the identity.
C30_OnlyCiphertextStored ==
    /\ \A rec \in written :
          /\ {F_id, F_d} \subseteq DOMAIN rec /\ DOMAIN rec \subseteq {F_id, F_rev, F_d}
          /\ rec[F_d].kind = "enc"
          /\ \A k \in DOMAIN rec[F_d].pt : ~startsWith(k, Sep)
    /\ \A key \in DOMAIN pdocs :
          IF pdocs[key].deleted
          THEN DOMAIN pdocs[key].doc = {F_id, F_rev, F_deleted}
          ELSE /\ DOMAIN pdocs[key].doc = {F_id, F_rev, F_d}
               /\ pdocs[key].doc[F_d].kind = "enc"
               /\ pdocs[key].doc[F_rev] = pdocs[key].rev
    /\ (lastOp.op = "get" /\ lastOp.result # Null) =>
          LET doc == lastOp.result.doc
              parsed == parseFullId(fullIdOf(lastOp.table, lastOp.id))
          IN  /\ {k \in DOMAIN doc : startsWith(k, Sep)} = {F_id, F_table}
              /\ doc[F_id] = parsed.id /\ doc[F_table] = parsed.type

\* A document put with underscore fields was stored and read back without
\* them.
C30_Witness ==
    /\ lastOp.op = "get" /\ lastOp.result # Null
    /\ \E rec \in written : rec[F_id] = fullIdOf(lastOp.table, lastOp.id)
    /\ <<lastOp.table, lastOp.id>> \in DOMAIN latest
    /\ ~latest[<<lastOp.table, lastOp.id>>].deleted
    /\ F_s \in DOMAIN latest[<<lastOp.table, lastOp.id>>].fields
    /\ F_s \notin DOMAIN lastOp.result.doc

----------------------------------------------------------------------------
(* Properties of the Fireproof store: failures, streams, reverse map *)

\* The id was classified as known before observation i: a seed or creation
\* with no deletion after it.
KnownBefore(i, id) ==
    \E m \in 1..(i - 1) :
       /\ fpObs[m].id = id /\ fpObs[m].class \in {"seed", "creation"}
       /\ \A n \in (m + 1)..(i - 1) :
             ~(fpObs[n].id = id /\ fpObs[n].class = "deletion")

\* The next observation of the id of observation i, or 0.
NextFor(i) ==
    LET later == {j \in (i + 1)..Len(fpObs) : fpObs[j].id = fpObs[i].id}
    IN  IF later = {} THEN 0 ELSE CHOOSE j \in later : \A m \in later : j <= m

\* What follows a record that failed to decrypt: a tombstone is a deletion
\* exactly when the id was known before the failure, a record that decrypts
\* is a creation exactly when it was not.
AfterFailure ==
    \A i \in 1..Len(fpObs) :
       (fpObs[i].class = "undecryptable" /\ NextFor(i) # 0) =>
          LET e == fpObs[NextFor(i)]
          IN  /\ e.d = NoD =>
                   (e.class = "deletion" <=> KnownBefore(i, fpObs[i].id))
              /\ (e.d # NoD /\ decrypt(e.d) # Null) =>
                   (e.class = "creation" <=> ~KnownBefore(i, fpObs[i].id))

\* A step that classified nothing but records that failed to decrypt.
OnlyFailuresClassified ==
    /\ Len(fpObs') > Len(fpObs)
    /\ \A k \in (Len(fpObs) + 1)..Len(fpObs') : fpObs'[k].class = "undecryptable"

\* C31: a live record that fails to decrypt leaves the known-identity set
\* unchanged, so a later tombstone for a known identity is still a deletion
\* and a later decryptable record for an unknown one is a creation.
C31_FailureLeavesKnownUnchanged ==
    /\ []AfterFailure
    /\ [][OnlyFailuresClassified => knownIds' = knownIds]_vars

\* Both cases in one run of a single identity: failure, creation, failure,
\* deletion.
C31_Witness ==
    /\ snap = <<>> /\ loadPc = "done"
    /\ ObsData = <<Bad, Good, Bad, NoD>>
    /\ ObsClasses = <<"undecryptable", "creation", "undecryptable", "deletion">>
    /\ knownIds = {}

----------------------------------------------------------------------------
(* Failure batches of one load *)

ErrorCalls(cs) == {c \in 1..Len(cs) : cs[c].type = "onError"}

\* C32: the decryption failures of one load are delivered in one onError
\* invocation, separate from onChange: onError is invoked at most once per
\* load and no failed record is among the documents given to onChange.
C32_OneFailureBatchPerLoad ==
    (settled.name = "loadAll" /\ ~settled.listenerThrows) =>
        /\ Cardinality(ErrorCalls(settled.calls)) <= 1
        /\ \A c \in 1..Len(settled.calls) :
              settled.calls[c].type = "onChange" =>
                 \A k \in 1..Len(settled.calls[c].events) :
                    /\ settled.calls[c].events[k]._id = <<"x">>
                    /\ settled.calls[c].events[k]._table = <<"a">>
                          => Current(settled.before).d.key = Passphrase
                    /\ settled.calls[c].events[k]._table = <<"b">>
                          => settled.other.key = Passphrase

\* Every document of every listener invocation, loadAll's included, in
\* invocation order.
AllNotified == Flatten([c \in 1..Len(calls) |-> GroupDocs(calls[c])])

\* C33: per identity the notifications are well formed: a changed or deleted
\* notification is preceded by a created notification for the same identity
\* with no deleted notification for it in between.
C33_StreamWellFormed ==
    LET n == AllNotified
    IN  \A i \in 1..Len(n) :
          n[i].type \in {"docsChanged", "docsDeleted"} =>
            \E j \in 1..(i - 1) :
               /\ n[j].type = "docsAdded"
               /\ n[j].table = n[i].table /\ n[j].id = n[i].id
               /\ \A m \in (j + 1)..(i - 1) :
                     ~(n[m].type = "docsDeleted" /\ n[m].table = n[i].table
                       /\ n[m].id = n[i].id)

\* C34: between handleChange invocations every id in knownIds has an entry
\* in fullIdMap, so its later update or deletion can be attributed to a
\* table.
C34_KnownHasFullId ==
    (loadPc # "scanned" /\ fpTasks = <<>>) =>
        \A id \in knownIds : fullIdMap[id] # NoKey

----------------------------------------------------------------------------
(* Hand-over from the initial load to the live feed *)

\* The changes the feed has emitted or holds for the store, in commit order.
FeedChanges == Flatten(arrived) \o feed

\* What the store has been given for key k: the last change of the feed, else
\* the row of loadAll's scan, else nothing.
LastGiven(k) ==
    LET c == {i \in 1..Len(FeedChanges) : FeedChanges[i]._id = k}
        r == {i \in 1..Len(snap) : snap[i]._id = k}
    IN  IF c # {} THEN FeedChanges[CHOOSE i \in c : \A j \in c : j <= i].d
        ELSE IF r # {} THEN snap[CHOOSE i \in r : TRUE].d
        ELSE NoD

\* C35: no change committed after loadAll's scan is lost: once loadAll has
\* subscribed, what the database holds under every key is what the scan or
\* the feed has given, or is still to give, to the store; a change that the
\* feed never emits is never delivered.
C35_NoChangeLostAtHandOver ==
    loadPc = "done" => \A k \in Keys : LastGiven(k) = db[k]

----------------------------------------------------------------------------
(* Subscriptions *)

\* C36: after any sequence of loadAll and reconnect calls at most one change
\* feed is live, and a committed change is handed to handleChange at most
\* once.
C36_OneLiveSubscription ==
    /\ Cardinality(LiveSubs(subscr)) <= 1
    /\ \A c \in 1..Len(subscr.handled) : subscr.handled[c] <= 1

\* The Fireproof store subscribes once, however often loadAll is called.
FireproofSubscribesOnce ==
    subscr.gen = "fireproof" =>
        /\ Cardinality(LiveSubs(subscr)) <= 1
        /\ \A c \in 1..Len(subscr.handled) : subscr.handled[c] <= 1


\* C37: once deleteAllAndSync has settled, by confirmation, sync error or
\* timeout, the change and error listeners it registered on the sync handle
\* are removed and its timer is no longer armed.
C37_SettledLeavesNothingBehind ==
    (das.pc = "done" /\ das.outcome \in {"resolved", "rejected: sync error",
                                          "rejected: timeout"})
        => (das.listeners = 0 /\ das.timer # "armed")


\* C39: for a live change, onError is invoked only when the change's record
\* failed to decrypt, never for a change whose document was handed to
\* onChange, a throwing onChange listener included.
C39_ErrorMeansDecryptFailed ==
    \A i \in 1..Len(calls) :
        (calls[i].src = "handleChange" /\ calls[i].type = "onError")
            => \A j \in 1..Len(calls[i].events) : calls[i].events[j].cause = "decrypt"


\* Every stored revision is the complete record of exactly one writer: a
\* replicated revision, or the ciphertext of the one put call that made it.
OneWriterPerRevision ==
    \A l \in revTree :
        IF l.rev.hash \in Hashes THEN l.d = RepData
        ELSE /\ Cardinality({i \in 1..Len(putCalls) :
                                putCalls[i].rev = l.rev /\ PutData(i) = l.d}) = 1
             /\ ~l.deleted

\* A put that returned has its revision in the revision tree with the
\* ciphertext it wrote; a put that rejected has written nothing.
ReturnedPutsKept ==
    \A i \in 1..Len(putCalls) :
        /\ putCalls[i].pc = "returned" =>
              \E l \in revTree : l.rev = putCalls[i].rev /\ l.d = PutData(i)
        /\ putCalls[i].pc = "rejected" =>
              /\ putCalls[i].rev = Null
              /\ \A l \in revTree : l.rev.hash # PutHash(i)

====
